---- MODULE Spec2Model ----
(***************************************************************************)
(* LogBoop (src/src/process.rs): classification of a rotated log file by   *)
(* its first line, extraction of a calendar date from every line, and the  *)
(* date-driven split of the file into <prefix>-<YYYY-MM-DD> output files.  *)
(*                                                                         *)
(* A line is a sequence of characters, each character a one-character      *)
(* string.  The string "U+0663" stands for the single character ARABIC-    *)
(* INDIC DIGIT THREE: the regex crate's \d is Unicode aware and matches    *)
(* it, chrono's number scanner reads ASCII digits only.                    *)
(*                                                                         *)
(* The console (print!, println!, eprintln!, stdout().flush()) is taken to *)
(* be writable: what is printed is recorded, its failure is not modelled.  *)
(***************************************************************************)
EXTENDS Integers, Sequences, FiniteSets, TLC

(***************************************************************************)
(* Characters and tables                                                   *)
(***************************************************************************)
AsciiDigits == <<"0", "1", "2", "3", "4", "5", "6", "7", "8", "9">>

IsAsciiDigit(c) == \E k \in 1..10 : AsciiDigits[k] = c

DigitVal(c) == (CHOOSE k \in 1..10 : AsciiDigits[k] = c) - 1

\* \d of the regex crate: any Unicode decimal digit
IsReDigit(c) == IsAsciiDigit(c) \/ c = "U+0663"

\* char::is_whitespace, as used by str::trim_left in chrono's parser
IsSpace(c) == c \in {" ", "\t"}

MonthNames ==
    << <<"J","a","n">>, <<"F","e","b">>, <<"M","a","r">>, <<"A","p","r">>,
       <<"M","a","y">>, <<"J","u","n">>, <<"J","u","l">>, <<"A","u","g">>,
       <<"S","e","p">>, <<"O","c","t">>, <<"N","o","v">>, <<"D","e","c">> >>

\* chrono::Weekday numbered from Monday
WeekdayNames ==
    << <<"M","o","n">>, <<"T","u","e">>, <<"W","e","d">>, <<"T","h","u">>,
       <<"F","r","i">>, <<"S","a","t">>, <<"S","u","n">> >>

\* the character of s at position i, "" (no character) outside of s
At(s, i) == IF i >= 1 /\ i <= Len(s) THEN s[i] ELSE ""

\* does the text w stand in s at position i
StartsAt(s, i, w) == \A k \in 1..Len(w) : At(s, i + k - 1) = w[k]

\* index in tbl of the name standing in s at position i, 0 when there is none
NameAt(tbl, s, i) ==
    IF \E k \in 1..Len(tbl) : StartsAt(s, i, tbl[k])
    THEN CHOOSE k \in 1..Len(tbl) : StartsAt(s, i, tbl[k])
    ELSE 0

\* \d{n} at position i
DigitsAt(s, i, n) == \A k \in 0..(n - 1) : IsReDigit(At(s, i + k))

(***************************************************************************)
(* REGEXES: for each log type, the length of the match of its pattern that *)
(* starts at position i of s, 0 when the pattern does not match there.     *)
(***************************************************************************)
LogTypes == {"Syslog", "Iso", "ApacheAccess", "ApacheError", "GrafanaLogs"}

\* ^(Jan|...|Dec) ([012 ]\d|3[01])
SyslogRe(s, i) ==
    IF /\ i = 1
       /\ NameAt(MonthNames, s, 1) # 0
       /\ At(s, 4) = " "
       /\ \/ At(s, 5) \in {"0", "1", "2", " "} /\ IsReDigit(At(s, 6))
          \/ At(s, 5) = "3" /\ At(s, 6) \in {"0", "1"}
    THEN 6 ELSE 0

\* ^\d{4}-\d{2}-\d{2}
IsoRe(s, i) ==
    IF /\ i = 1
       /\ DigitsAt(s, 1, 4) /\ At(s, 5) = "-"
       /\ DigitsAt(s, 6, 2) /\ At(s, 8) = "-"
       /\ DigitsAt(s, 9, 2)
    THEN 10 ELSE 0

\* \[\d{2}/(Jan|...|Dec)/\d{4}:
ApacheAccessRe(s, i) ==
    IF /\ At(s, i) = "["
       /\ DigitsAt(s, i + 1, 2) /\ At(s, i + 3) = "/"
       /\ NameAt(MonthNames, s, i + 4) # 0 /\ At(s, i + 7) = "/"
       /\ DigitsAt(s, i + 8, 4) /\ At(s, i + 12) = ":"
    THEN 13 ELSE 0

\* the part of the ApacheError pattern after the month alternative, at j:
\* " \d{2} \d{2}:\d{2}:\d{2}.\d{6} \d{4}]" ("." is any character but \n)
ApacheErrorTail(s, j) ==
    /\ At(s, j) = " " /\ DigitsAt(s, j + 1, 2)
    /\ At(s, j + 3) = " " /\ DigitsAt(s, j + 4, 2)
    /\ At(s, j + 6) = ":" /\ DigitsAt(s, j + 7, 2)
    /\ At(s, j + 9) = ":" /\ DigitsAt(s, j + 10, 2)
    /\ At(s, j + 12) \notin {"", "\n"}
    /\ DigitsAt(s, j + 13, 6)
    /\ At(s, j + 19) = " " /\ DigitsAt(s, j + 20, 4)
    /\ At(s, j + 24) = "]"

\* \[(Mon|...|Sun) (Jan|Feb||Mar|...|Dec) \d{2} ...]: the month alternative
\* has an empty branch (Feb||Mar), so the month name may be missing
ApacheErrorRe(s, i) ==
    IF At(s, i) = "[" /\ NameAt(WeekdayNames, s, i + 1) # 0 /\ At(s, i + 4) = " "
    THEN IF NameAt(MonthNames, s, i + 5) # 0 /\ ApacheErrorTail(s, i + 8)
         THEN 33
         ELSE IF ApacheErrorTail(s, i + 5) THEN 30 ELSE 0
    ELSE 0

\* ^t=\d{4}-\d{2}-\d{2}T\d{2}:\d{2}:\d{2}(\+|-)\d{4} lvl=
GrafanaLogsRe(s, i) ==
    IF /\ i = 1
       /\ StartsAt(s, 1, <<"t", "=">>)
       /\ DigitsAt(s, 3, 4) /\ At(s, 7) = "-"
       /\ DigitsAt(s, 8, 2) /\ At(s, 10) = "-"
       /\ DigitsAt(s, 11, 2) /\ At(s, 13) = "T"
       /\ DigitsAt(s, 14, 2) /\ At(s, 16) = ":"
       /\ DigitsAt(s, 17, 2) /\ At(s, 19) = ":"
       /\ DigitsAt(s, 20, 2) /\ At(s, 22) \in {"+", "-"}
       /\ DigitsAt(s, 23, 4)
       /\ StartsAt(s, 27, <<" ", "l", "v", "l", "=">>)
    THEN 31 ELSE 0

REGEXES(lt, s, i) ==
    CASE lt = "Syslog"       -> SyslogRe(s, i)
      [] lt = "Iso"          -> IsoRe(s, i)
      [] lt = "ApacheAccess" -> ApacheAccessRe(s, i)
      [] lt = "ApacheError"  -> ApacheErrorRe(s, i)
      [] lt = "GrafanaLogs"  -> GrafanaLogsRe(s, i)

\* Regex::is_match
is_match(lt, s) == \E i \in 1..(Len(s) + 1) : REGEXES(lt, s, i) > 0

\* Option: None is the empty sequence, Some(x) the sequence of x alone
None == <<>>
Some(x) == <<x>>
Unwrap(o) == o[1]

\* the match lengths of the pattern of lt at every position of s
MatchLens(lt, s) == [i \in 1..(Len(s) + 1) |-> REGEXES(lt, s, i)]

\* the leftmost match in a table of match lengths, as Some(<<start, end>>)
Leftmost(lens) ==
    IF \E i \in DOMAIN lens : lens[i] > 0
    THEN LET i == CHOOSE i \in DOMAIN lens :
                     lens[i] > 0 /\ \A j \in 1..(i - 1) : lens[j] = 0
         IN  Some(<<i, i + lens[i] - 1>>)
    ELSE None

\* Regex::find: the leftmost match as Some(<<start, end>>) (end inclusive)
find(lt, s) == Leftmost(MatchLens(lt, s))

(***************************************************************************)
(* chrono: NaiveDate::parse_from_str(s, fmt), the format string given as   *)
(* its items, and the formatting of a date with "%Y-%m-%d".                *)
(***************************************************************************)

Lit(c)    == [k |-> "lit",   f |-> "",  w |-> 0, c |-> c]
Space     == [k |-> "space", f |-> "",  w |-> 0, c |-> <<>>]
Num(f, w) == [k |-> "num",   f |-> f,   w |-> w, c |-> <<>>]
ShortMonthName   == [k |-> "month", f |-> "", w |-> 0, c |-> <<>>]
ShortWeekdayName == [k |-> "wday",  f |-> "", w |-> 0, c |-> <<>>]
Nanosecond6      == [k |-> "nano",  f |-> "", w |-> 0, c |-> <<>>]
TimezoneOffset   == [k |-> "tz",    f |-> "", w |-> 0, c |-> <<>>]

\* the widest number an item may read (%s reads every digit there is)
AnyWidth(s) == Len(s)

\* chrono::format::Parsed, the fields a date is resolved from (-1: not set)
NewParsed == [ok |-> TRUE, year |-> -1, month |-> -1, day |-> -1, weekday |-> -1]

\* a ParseError, whatever its kind
Err == [ok |-> FALSE, year |-> -1, month |-> -1, day |-> -1, weekday |-> -1]

RECURSIVE SkipSpace(_, _)
\* str::trim_left: the first position at or after i that holds no whitespace
SkipSpace(s, i) == IF IsSpace(At(s, i)) THEN SkipSpace(s, i + 1) ELSE i

RECURSIVE CountDigits(_, _, _)
\* scan::number: how many ASCII digits stand at i, at most w
CountDigits(s, i, w) ==
    IF w > 0 /\ IsAsciiDigit(At(s, i)) THEN 1 + CountDigits(s, i + 1, w - 1) ELSE 0

RECURSIVE NumVal(_, _, _)
\* the value of the n digits at i
NumVal(s, i, n) ==
    IF n = 0 THEN 0 ELSE 10 * NumVal(s, i, n - 1) + DigitVal(s[i + n - 1])

\* Parsed::set_year, set_month, set_day; the time of day and the timestamp
\* are stored without a range check and play no part in the date
SetField(p, f, v) ==
    IF f \in {"year", "month", "day"} THEN [p EXCEPT ![f] = v] ELSE p

\* scan::timezone_offset: sign, two digits of hours, an optional colon or
\* spaces, two digits of minutes the first of which is 0..5.
\* The position after the offset, 0 on failure.
TimezoneAt(s, i) ==
    IF At(s, i) \in {"+", "-"} /\ CountDigits(s, i + 1, 2) = 2
    THEN LET j == CHOOSE j \in (i + 3)..(Len(s) + 1) :
                     /\ At(s, j) # ":" /\ ~IsSpace(At(s, j))
                     /\ \A q \in (i + 3)..(j - 1) : At(s, q) = ":" \/ IsSpace(At(s, q))
         IN  IF CountDigits(s, j, 2) = 2 /\ DigitVal(s[j]) <= 5 THEN j + 2 ELSE 0
    ELSE 0

RECURSIVE parse(_, _, _, _, _)
\* chrono::format::parse: read items[n..] from position i of s into p;
\* Err when an item does not fit or text is left over
parse(items, n, s, i, p) ==
    IF n > Len(items)
    THEN IF i > Len(s) THEN p ELSE Err
    ELSE
    LET it == items[n] IN
    CASE it.k = "lit" ->
           IF StartsAt(s, i, it.c)
           THEN parse(items, n + 1, s, i + Len(it.c), p) ELSE Err
      [] it.k = "space" -> parse(items, n + 1, s, SkipSpace(s, i), p)
      [] it.k = "num" ->
           LET j == SkipSpace(s, i)
               c == CountDigits(s, j, it.w)
           IN  IF c = 0 THEN Err
               ELSE parse(items, n + 1, s, j + c, SetField(p, it.f, NumVal(s, j, c)))
      [] it.k = "month" ->
           LET m == NameAt(MonthNames, s, i)
           IN  IF m = 0 THEN Err
               ELSE parse(items, n + 1, s, i + 3, [p EXCEPT !.month = m])
      [] it.k = "wday" ->
           LET d == NameAt(WeekdayNames, s, i)
           IN  IF d = 0 THEN Err
               ELSE parse(items, n + 1, s, i + 3, [p EXCEPT !.weekday = d])
      [] it.k = "nano" ->
           IF At(s, i) = "."
           THEN LET c == CountDigits(s, i + 1, AnyWidth(s))
                IN  IF c = 0 THEN Err ELSE parse(items, n + 1, s, i + 1 + c, p)
           ELSE parse(items, n + 1, s, i, p)
      [] it.k = "tz" ->
           LET j == TimezoneAt(s, SkipSpace(s, i))
           IN  IF j = 0 THEN Err ELSE parse(items, n + 1, s, j, p)

IsLeap(y) == y % 4 = 0 /\ (y % 100 # 0 \/ y % 400 = 0)

DaysInMonth(y, m) ==
    IF m = 2 THEN (IF IsLeap(y) THEN 29 ELSE 28)
    ELSE IF m \in {4, 6, 9, 11} THEN 30 ELSE 31

\* NaiveDate::from_ymd_opt succeeds
ValidYmd(y, m, d) ==
    y >= 0 /\ m \in 1..12 /\ d >= 1 /\ d <= DaysInMonth(y, m)

\* the day of the week of a proleptic Gregorian date, 1 = Monday .. 7 = Sunday
WeekdayOf(y, m, d) ==
    LET t  == <<0, 3, 2, 5, 0, 3, 5, 1, 4, 6, 2, 4>>
        yy == (IF m < 3 THEN y - 1 ELSE y) + 400
        w0 == (yy + (yy \div 4) - (yy \div 100) + (yy \div 400) + t[m] + d) % 7
    IN  IF w0 = 0 THEN 7 ELSE w0

\* Parsed::to_naive_date: year, month and day must be set and name a day of
\* the calendar, and a weekday that was read must be that day's; None stands
\* for the Err of the ParseResult
to_naive_date(p) ==
    IF ~p.ok THEN None
    ELSE IF p.year < 0 \/ p.month < 0 \/ p.day < 0 THEN None
    ELSE IF ~ValidYmd(p.year, p.month, p.day) THEN None
    ELSE IF p.weekday > 0 /\ p.weekday # WeekdayOf(p.year, p.month, p.day) THEN None
    ELSE Some([y |-> p.year, m |-> p.month, d |-> p.day])

parse_from_str(s, items) == to_naive_date(parse(items, 1, s, 1, NewParsed))

RECURSIVE Dec(_)
\* the decimal digits of n >= 0 ("{}" of an integer)
Dec(n) == IF n < 10 THEN <<AsciiDigits[n + 1]>>
          ELSE Append(Dec(n \div 10), AsciiDigits[(n % 10) + 1])

RECURSIVE PadTo(_, _)
\* s with zeros put in front until it has w characters
PadTo(s, w) == IF Len(s) >= w THEN s ELSE PadTo(<<"0">> \o s, w)

\* n written without padding ("{}")
NoPad(n, w) == Dec(n)

\* n written on at least w digits, zero padded ("{:0w}")
ZeroPad(n, w) == PadTo(Dec(n), w)

\* format_with_items(StrftimeItems::new("%Y-%m-%d")) for a year 0..9999
iso_8601_fmt(date) ==
    ZeroPad(date.y, 4) \o <<"-">> \o ZeroPad(date.m, 2) \o <<"-">> \o ZeroPad(date.d, 2)

\* chrono::NaiveDate::from_ymd
from_ymd(y, m, d) == [y |-> y, m |-> m, d |-> d]

(***************************************************************************)
(* determine_date                                                          *)
(***************************************************************************)
SyslogFmt == <<ShortMonthName, Space, Num("day", 2), Space, Num("year", 4)>>

IsoFmt == <<Num("year", 4), Lit(<<"-">>), Num("month", 2), Lit(<<"-">>), Num("day", 2)>>

ApacheAccessFmt ==
    <<Lit(<<"[">>), Num("day", 2), Lit(<<"/">>), ShortMonthName, Lit(<<"/">>),
      Num("year", 4), Lit(<<":">>)>>

\* "[%a %b %d %H:%M:%s%.6f %Y]": the seconds are read with %s, the timestamp
ApacheErrorFmt(s) ==
    <<Lit(<<"[">>), ShortWeekdayName, Space, ShortMonthName, Space, Num("day", 2),
      Space, Num("hour", 2), Lit(<<":">>), Num("minute", 2), Lit(<<":">>),
      Num("timestamp", AnyWidth(s)), Nanosecond6, Space, Num("year", 4), Lit(<<"]">>)>>

GrafanaLogsFmt ==
    <<Lit(<<"t", "=">>), Num("year", 4), Lit(<<"-">>), Num("month", 2), Lit(<<"-">>),
      Num("day", 2), Lit(<<"T">>), Num("hour", 2), Lit(<<":">>), Num("minute", 2),
      Lit(<<":">>), Num("second", 2), TimezoneOffset, Space,
      Lit(<<"l", "v", "l", "=">>)>>

\* the date put in place of one that does not parse
FallbackDate == from_ymd(0, 1, 1)

\* the date the matched part sub parses to, the current year being year
ParseMatched(lt, sub, year) ==
    CASE lt = "Syslog" -> parse_from_str(sub \o <<" ">> \o Dec(year), SyslogFmt)
      [] lt = "Iso" -> parse_from_str(sub, IsoFmt)
      [] lt = "ApacheAccess" -> parse_from_str(sub, ApacheAccessFmt)
      [] lt = "ApacheError" -> parse_from_str(sub, ApacheErrorFmt(sub))
      [] lt = "GrafanaLogs" -> parse_from_str(sub, GrafanaLogsFmt)

\* .unwrap_or_else(|_| from_ymd(0, 1, 1)).format_with_items(..).to_string()
FormatOrFallback(parsed) ==
    iso_8601_fmt(IF parsed = None THEN FallbackDate ELSE Unwrap(parsed))

\* determine_date once the pattern has been looked for
DateOfMatch(lt, line, year, matched_part) ==
    IF matched_part = None THEN None
    ELSE Some(FormatOrFallback(
           ParseMatched(lt,
                        SubSeq(line, Unwrap(matched_part)[1], Unwrap(matched_part)[2]),
                        year)))

\* the date string of a line of assumed type lt, read while the clock's year
\* (chrono::Utc::now().year()) is year; None when the pattern is not found
determine_date(lt, line, year) == DateOfMatch(lt, line, year, find(lt, line))

(***************************************************************************)
(* The lines the files of the model are made of, as character sequences.   *)
(***************************************************************************)
\* "Jan  5 a"
LSys5 == <<"J", "a", "n", " ", " ", "5", " ", "a">>

\* "Jan 5 b"
LSys5b == <<"J", "a", "n", " ", "5", " ", "b">>

\* "Feb 29 c"
LSysFeb29 == <<"F", "e", "b", " ", "2", "9", " ", "c">>

\* "Feb 30 d"
LSysFeb30 == <<"F", "e", "b", " ", "3", "0", " ", "d">>

\* "2020-05-12 e"
LIsoA == <<"2", "0", "2", "0", "-", "0", "5", "-", "1", "2", " ", "e">>

\* "2020-05-12 g"
LIsoA2 == <<"2", "0", "2", "0", "-", "0", "5", "-", "1", "2", " ", "g">>

\* "2020-05-13 f"
LIsoB == <<"2", "0", "2", "0", "-", "0", "5", "-", "1", "3", " ", "f">>

\* "2020-13-45 h"
LIsoBad == <<"2", "0", "2", "0", "-", "1", "3", "-", "4", "5", " ", "h">>

\* "202<U+0663>-05-12 u"
LIsoUni == <<"2", "0", "2", "U+0663", "-", "0", "5", "-", "1", "2", " ", "u">>

\* "0001-01-01 z"
LIsoYear1 == <<"0", "0", "0", "1", "-", "0", "1", "-", "0", "1", " ", "z">>

\* "  at frame"
LCont == <<" ", " ", "a", "t", " ", "f", "r", "a", "m", "e">>

\* ""
LEmpty == <<>>

\* "ip [17/May/2020:"
LAccess ==
    <<"i", "p", " ", "[", "1", "7", "/", "M", "a", "y", "/", "2", "0", "2", "0", ":">>

\* "[Sat May 16 02:07:16.656808 2020] x"
LError ==
    <<"[", "S", "a", "t", " ", "M", "a", "y", " ", "1", "6", " ", "0", "2", ":", "0",
      "7", ":", "1", "6", ".", "6", "5", "6", "8", "0", "8", " ", "2", "0", "2", "0",
      "]", " ", "x">>

\* "[Sun May 16 02:07:16.656808 2020] x"
LErrorWd ==
    <<"[", "S", "u", "n", " ", "M", "a", "y", " ", "1", "6", " ", "0", "2", ":", "0",
      "7", ":", "1", "6", ".", "6", "5", "6", "8", "0", "8", " ", "2", "0", "2", "0",
      "]", " ", "x">>

\* "[Sat  16 02:07:16.656808 2020] x"
LErrorNoMon ==
    <<"[", "S", "a", "t", " ", " ", "1", "6", " ", "0", "2", ":", "0", "7", ":", "1",
      "6", ".", "6", "5", "6", "8", "0", "8", " ", "2", "0", "2", "0", "]", " ", "x">>

\* "t=2020-05-12T18:14:21+0200 lvl=i"
LGrafana ==
    <<"t", "=", "2", "0", "2", "0", "-", "0", "5", "-", "1", "2", "T", "1", "8", ":",
      "1", "4", ":", "2", "1", "+", "0", "2", "0", "0", " ", "l", "v", "l", "=", "i">>

\* "t=2020-05-12T18:14:21+0299 lvl=i"
LGrafanaTz ==
    <<"t", "=", "2", "0", "2", "0", "-", "0", "5", "-", "1", "2", "T", "1", "8", ":",
      "1", "4", ":", "2", "1", "+", "0", "2", "9", "9", " ", "l", "v", "l", "=", "i">>

\* "Jan 12 [17/May/2020:"
LSysAccess ==
    <<"J", "a", "n", " ", "1", "2", " ", "[", "1", "7", "/", "M", "a", "y", "/", "2",
      "0", "2", "0", ":">>

\* "2020-05-12 [13/May/2020:"
LIsoAccess ==
    <<"2", "0", "2", "0", "-", "0", "5", "-", "1", "2", " ", "[", "1", "3", "/", "M",
      "a", "y", "/", "2", "0", "2", "0", ":">>

Catalogue ==
    <<LSys5, LSys5b, LSysFeb29, LSysFeb30, LIsoA,
      LIsoA2, LIsoB, LIsoBad, LIsoUni, LIsoYear1,
      LCont, LEmpty, LAccess, LError, LErrorWd,
      LErrorNoMon, LGrafana, LGrafanaTz, LSysAccess, LIsoAccess>>

(***************************************************************************)
(* Paths.  A path under one of the two roots is a directory (the names of  *)
(* the folders below the root) and a file name, the file name given as its *)
(* dot-separated parts, each a character sequence.                         *)
(***************************************************************************)
Path(dir, name) == [dir |-> dir, name |-> name]

\* Path::extension: what follows the last dot of the file name
extension(p) == IF Len(p.name) >= 2 THEN Some(p.name[Len(p.name)]) ELSE None

\* Path::with_extension(""): the path without its extension
with_extension_empty(p) ==
    IF extension(p) = None THEN p
    ELSE Path(p.dir, SubSeq(p.name, 1, Len(p.name) - 1))

\* NUMBER_REGEX, ^\d+$
NUMBER_REGEX(e) == Len(e) >= 1 /\ \A k \in 1..Len(e) : IsReDigit(e[k])

\* the filter of all_files: the extension is a number
IsRotated(p) == extension(p) # None /\ NUMBER_REGEX(Unwrap(extension(p)))

\* an output prefix that keeps the extension of the entry
whole_entry(entry) == entry

\* outpath.join(entry.strip_prefix(inpath)).with_extension("")
base_output_path(entry) == with_extension_empty(entry)

\* format!("{}-{}", prepared_path_out, date_postfix)
new_fname(outroot, date_postfix) ==
    LET n == Len(outroot.name)
    IN  Path(outroot.dir,
             [outroot.name EXCEPT ![n] = @ \o <<"-">> \o date_postfix])

\* the directories create_dir_all(dir) makes sure of: dir and those above it
DirsUpTo(dir) == {SubSeq(dir, 1, k) : k \in 0..Len(dir)}

(***************************************************************************)
(* The input tree of the model and the bounds of its contents              *)
(***************************************************************************)
RotatedOne == Path(<<"d">>, << <<"a">>, <<"l","o","g">>, <<"1">> >>)
RotatedTwo == Path(<<"d">>, << <<"a">>, <<"l","o","g">>, <<"2">> >>)
ActiveLog  == Path(<<"d">>, << <<"a">>, <<"l","o","g">> >>)

\* a compressed rotated file, and the file degunzip makes of it
RotatedGz    == Path(<<"d">>, << <<"a">>, <<"l","o","g">>, <<"3">>, <<"g","z">> >>)
RotatedThree == Path(<<"d">>, << <<"a">>, <<"l","o","g">>, <<"3">> >>)

\* the order in which WalkDir yields the files of the input tree
WalkOrder == <<RotatedOne, ActiveLog, RotatedTwo, RotatedGz, RotatedThree>>

\* a line that read_line cannot return: it is not valid UTF-8
Bad == 0

\* a place of the file where every read fails with an I/O error (the
\* reader does not move on after an error, so the next read fails too)
Stuck == -1

\* the text of entry k of a file
Text(k) == Catalogue[k]

\* longest file of the long-file shape, and of the two-file shape
MaxSplitLines == 4
MaxBatchLines == 2
\* how many I/O operations may fail in one behaviour
MaxFaults == 1
\* the lines a BufWriter holds before it writes them out
BufCap == 2
\* the year of the clock at the start, and how many new years may pass
FirstYear == 2023
MaxTicks == 1

LastYear == FirstYear + MaxTicks

\* the position of a line in Catalogue
IndexOf(line) == CHOOSE k \in 1..Len(Catalogue) : Catalogue[k] = line

IdxIsoA  == IndexOf(LIsoA)
IdxIsoA2 == IndexOf(LIsoA2)
IdxIsoB  == IndexOf(LIsoB)
IdxCont  == IndexOf(LCont)

SplitLines == {IdxIsoA, IdxIsoA2, IdxIsoB, IdxCont, Bad}
BatchLines == {IdxIsoA, IdxIsoB, IdxCont}

RECURSIVE SeqsUpTo(_, _)
\* all sequences over S of length at most n
SeqsUpTo(S, n) ==
    IF n = 0 THEN {<< >>}
    ELSE LET shorter == SeqsUpTo(S, n - 1)
         IN  shorter \cup {Append(s, x) : s \in shorter, x \in S}

(***************************************************************************)
(* State                                                                   *)
(***************************************************************************)
VARIABLES
    src,      \* the input tree: path -> the file's lines (its domain: the files)
    out,      \* the output tree: path -> the lines the file holds on disk
    dirs,     \* the directories of the output tree
    queue,    \* all_files: the entries WalkDir has yet to yield
    pc,       \* all_files: "walk", "determine", "process", "fold", "done";
              \* main: "main", "degunzip", "gunzip", "exit", "abort"
    proco,    \* the FileProcessor of the file at hand: path, outroot, logtype
    pos,      \* process: how many lines of the file bufr.lines() has yielded
    odp,      \* the fold's accumulator: the date of the open output file
    nbufw,    \* the fold's accumulator: the BufWriter, None or Some([file, buf])
    res,      \* path -> how one_file ended for it, and the type it found
    stderr,   \* the paths all_files has printed an error for
    year,     \* the year of the clock
    faults,   \* I/O operations that have failed so far
    errs,     \* history: the I/O errors met by the one_file call at hand
    accepted, \* history: the <<file, line>> that writeln! took in this call
    before,   \* history: out and dirs when this call of one_file began
    orig,     \* history: the input tree at the start
    call,     \* DateSpec: the call of determine_date, its arguments and result
    argv,     \* main: None when all_files is entered on its own, else
              \* Some([input |-> what the input path is])
    peak      \* history: the most output files the call at hand had open at once

vars == <<src, out, dirs, queue, pc, proco, pos, odp, nbufw, res, stderr, year,
          faults, errs, accepted, before, orig, call, argv, peak>>

NoProco == [path |-> Path(<<>>, <<>>), outroot |-> Path(<<>>, <<>>), logtype |-> None]

NoResult == [outcome |-> "none", logtype |-> None]

\* no call of determine_date on its own
NoCall == [lt |-> "", want |-> << >>, line |-> << >>, got |-> None, done |-> FALSE]

\* the entries a walk of the tree yields, in order
Walked(tree) == SelectSeq(WalkOrder, LAMBDA p : p \in DOMAIN tree)

\* the state in which nothing has been done yet to the input tree
InitFiles(tree) ==
    /\ src = tree
    /\ orig = tree
    /\ before = [out |-> << >>, dirs |-> {<< >>}]
    /\ queue = Walked(tree)
    /\ proco = NoProco
    /\ pos = 0
    /\ odp = << >>
    /\ nbufw = None
    /\ res = [p \in DOMAIN tree |-> NoResult]
    /\ stderr = {}
    /\ faults = 0
    /\ errs = {}
    /\ accepted = << >>
    /\ peak = 0

\* all_files is entered on the tree
InitWith(tree) ==
    /\ InitFiles(tree)
    /\ out = << >>
    /\ dirs = {<< >>}
    /\ pc = "walk"
    /\ year = FirstYear
    /\ call = NoCall
    /\ argv = None

\* two rotated files of the same log, short, beside the active log
BatchTrees ==
    {(RotatedOne :> c1) @@ (RotatedTwo :> c2) @@ (ActiveLog :> << >>) :
        c1 \in SeqsUpTo(BatchLines, MaxBatchLines),
        c2 \in SeqsUpTo(BatchLines, MaxBatchLines)}

\* one longer rotated file
SplitTrees ==
    {(RotatedOne :> c) @@ (ActiveLog :> << >>) :
        c \in SeqsUpTo(SplitLines, MaxSplitLines)}

\* one rotated file that starts with any line of the catalogue
ParseTrees ==
    {(RotatedTwo :> (<<k>> \o c)) @@ (ActiveLog :> << >>) :
        k \in 1..Len(Catalogue), c \in {<< >>, <<IdxCont>>, <<IdxIsoA>>, <<Stuck>>}}

\* what a gzip file holds: the lines it was made of, or (ok FALSE) data
\* that is no whole gzip stream; over: it was written over a longer file,
\* the end of which is still there
Gz(lines) == [ok |-> TRUE, lines |-> lines, over |-> FALSE]

\* the output path itself, as the key of a file that stands where the
\* output folder should be
OutputRoot == Path(<< >>, << >>)

\* the input trees of a run of main: a compressed rotated file, which may
\* be no gzip data and beside which its decompressed name may be taken,
\* a rotated file and the active log
RunInputs ==
    {(RotatedGz :> g) @@ (RotatedTwo :> c) @@ (ActiveLog :> << >>) @@ old :
        g \in {Gz(<<IdxIsoA>>), Gz(<<IdxIsoA, IdxIsoB>>), [Gz(<< >>) EXCEPT !.ok = FALSE]},
        c \in {<<IdxIsoA>>, <<IdxIsoB, IdxCont>>},
        old \in {<< >>, (RotatedThree :> <<IdxIsoB>>)}}

\* the output path at the start of main: a folder (empty, or with a file),
\* nothing, or a file
RunOutputs ==
    {[out |-> << >>, dirs |-> {<< >>}],
     [out |-> (Path(<< >>, << <<"n","o","t","e","s">> >>) :> <<IdxCont>>), dirs |-> {<< >>}],
     [out |-> << >>, dirs |-> {}],
     [out |-> (OutputRoot :> << >>), dirs |-> {}]}

\* main is entered; input: what the first argument is, "dir" for a folder,
\* "other" when it is missing or names no folder
MainInit ==
    \E tree \in RunInputs, o \in RunOutputs, input \in {"dir", "other"} :
       /\ InitFiles(tree)
       /\ out = o.out
       /\ dirs = o.dirs
       /\ pc = "main"
       /\ year = FirstYear
       /\ call = NoCall
       /\ argv = Some([input |-> input])

Init ==
    \/ \E tree \in BatchTrees \cup SplitTrees \cup ParseTrees : InitWith(tree)
    \/ MainInit

(***************************************************************************)
(* all_files: the walk of the input tree                                   *)
(***************************************************************************)
\* a walk that the first error ends (the closure returning the error)
StopAfterError == "done"

\* what all_files does once one_file has returned an error: the closure
\* prints it and returns Ok(()), so try_for_each goes on with the walk
AfterError == "walk"

\* one_file returns: outcome "skipped" or "split" for Ok(()), "error" for
\* Err(e), which all_files prints with the path; es: the I/O errors of the step
Return(outcome, es) ==
    /\ res' = [res EXCEPT ![proco.path] =
                  [outcome |-> outcome, logtype |-> proco.logtype]]
    /\ stderr' = IF outcome = "error" THEN stderr \cup {proco.path} ELSE stderr
    /\ errs' = errs \cup es
    /\ pc' = IF outcome = "error" THEN AfterError ELSE "walk"
    /\ pos' = 0
    /\ odp' = << >>
    /\ nbufw' = None
    /\ UNCHANGED <<proco, queue, year, accepted, before, orig, call, argv, peak>>

\* an entry whose extension is no number is filtered out
AllFilesSkip ==
    /\ pc = "walk" /\ queue # << >>
    /\ ~IsRotated(Head(queue))
    /\ queue' = Tail(queue)
    /\ UNCHANGED <<src, out, dirs, pc, proco, pos, odp, nbufw, res, stderr, year,
                   faults, errs, accepted, before, orig, call, argv, peak>>

\* one_file(entry, base_output_path) begins: FileProcessor::new
OneFileNew ==
    /\ pc = "walk" /\ queue # << >>
    /\ IsRotated(Head(queue))
    /\ proco' = [path |-> Head(queue),
                 outroot |-> base_output_path(Head(queue)),
                 logtype |-> None]
    /\ queue' = Tail(queue)
    /\ pc' = "determine"
    /\ errs' = {}
    /\ accepted' = << >>
    /\ before' = [out |-> out, dirs |-> dirs]
    /\ peak' = 0
    /\ UNCHANGED <<src, out, dirs, pos, odp, nbufw, res, stderr, year, faults, orig,
                   call, argv>>

\* the walk is over: all_files returns Ok(())
AllFilesReturn ==
    /\ pc = "walk" /\ queue = << >>
    /\ pc' = "done"
    /\ UNCHANGED <<src, out, dirs, queue, proco, pos, odp, nbufw, res, stderr,
                   year, faults, errs, accepted, before, orig, call, argv, peak>>

(***************************************************************************)
(* FileProcessor::determine_type                                           *)
(***************************************************************************)
\* the lines of the file at hand
Content == src[proco.path]

\* what read_line leaves in first_line: the first line with its newline,
\* nothing for an empty file
first_line(c) == IF Len(c) = 0 THEN << >> ELSE Text(c[1]) \o <<"\n">>

\* a list of the types that leaves GrafanaLogs out
types_without_grafana == <<"Syslog", "Iso", "ApacheAccess", "ApacheError">>

\* an order of the types that tries ApacheAccess first
types_access_first == <<"ApacheAccess", "Syslog", "Iso", "ApacheError", "GrafanaLogs">>

\* the order in which the types are tried
types == <<"Syslog", "Iso", "ApacheAccess", "ApacheError", "GrafanaLogs">>

RECURSIVE FirstMatch(_, _, _)
\* the for loop: the first type from ts[n] on whose pattern matches
FirstMatch(ts, n, line) ==
    IF n > Len(ts) THEN None
    ELSE IF is_match(ts[n], line) THEN Some(ts[n])
    ELSE FirstMatch(ts, n + 1, line)

\* the logtype determine_type leaves in the processor
determine_type(line) == FirstMatch(types, 1, line)

\* read_line meets a first line that is not UTF-8
FirstIsBad(c) == Len(c) > 0 /\ c[1] = Bad

\* File::open and read_line succeed
DetermineTypeOk ==
    /\ pc = "determine"
    /\ ~FirstIsBad(Content)
    /\ proco' = [proco EXCEPT !.logtype = determine_type(first_line(Content))]
    /\ pc' = "process"
    /\ UNCHANGED <<src, out, dirs, queue, pos, odp, nbufw, res, stderr, year,
                   faults, errs, accepted, before, orig, call, argv, peak>>

\* File::open fails: determine_type()? returns the error
DetermineTypeOpenErr ==
    /\ pc = "determine"
    /\ faults < MaxFaults /\ faults' = faults + 1
    /\ Return("error", {"open"})
    /\ UNCHANGED <<src, out, dirs>>

\* read_line fails, on a first line that is not UTF-8 or on an I/O error
DetermineTypeReadErr ==
    /\ pc = "determine"
    /\ \/ FirstIsBad(Content) /\ UNCHANGED faults
       \/ faults < MaxFaults /\ faults' = faults + 1
    /\ Return("error", {"read"})
    /\ UNCHANGED <<src, out, dirs>>

(***************************************************************************)
(* FileProcessor::process                                                  *)
(***************************************************************************)
\* an open that truncates (write(true).create(true).truncate(true))
OpenTruncate(o, f) == (f :> << >>) @@ o

\* OpenOptions::new().append(true).create(true).open(f): the file is made
\* when it is not there and is left as it is when it is
OpenAppend(o, f) == IF f \in DOMAIN o THEN o ELSE o @@ (f :> << >>)

\* a writer that writes at the start of its file, over what the file holds
WriteOutOverwrite(o, w, k) == [o EXCEPT ![w.file] = SubSeq(w.buf, 1, k)]

\* a writer that writes at the start of its file, before what the file holds
WriteOutFront(o, w, k) == [o EXCEPT ![w.file] = SubSeq(w.buf, 1, k) \o @]

\* the writer w writes the first k lines of its buffer at the end of its file
WriteOut(o, w, k) == [o EXCEPT ![w.file] = @ \o SubSeq(w.buf, 1, k)]

\* what is left in the buffer of w once its first k lines are written
Rest(w, k) == [w EXCEPT !.buf = SubSeq(@, k + 1, Len(@))]

\* a writer that is dropped without a flush: what its buffer holds is lost
DropDiscard(o, ow, mayFail) == {[out |-> o, failed |-> FALSE]}

\* an Option<BufWriter> goes out of scope: its buffer is flushed and an error
\* of that flush is ignored.  The outcomes: the tree, and whether it failed
\* (having written only k lines), which it can when mayFail
DropWriter(o, ow, mayFail) ==
    IF ow = None THEN {[out |-> o, failed |-> FALSE]}
    ELSE LET w == Unwrap(ow) IN
         {[out |-> WriteOut(o, w, Len(w.buf)), failed |-> FALSE]}
         \cup (IF mayFail
               THEN {[out |-> WriteOut(o, w, k), failed |-> TRUE] :
                        k \in 0..(Len(w.buf) - 1)}
               ELSE {})

\* a removal that leaves the file where it is
keep_file(tree, p) == tree

\* std::fs::remove_file
remove_file(tree, p) == [q \in (DOMAIN tree) \ {p} |-> tree[q]]

\* a closure that opens a file for every dated line
ReopensAlways(date_postfix, open_date) == date_postfix # None

\* a closure that opens a file for the first dated line only
ReopensOnce(date_postfix, open_date) ==
    date_postfix # None /\ open_date = << >>

\* the closure of try_fold opens a file when the line has a date and that
\* date is not the one of the open file
Reopens(date_postfix, open_date) ==
    date_postfix # None /\ Unwrap(date_postfix) # open_date

\* a closure that keeps writeln! inside the `if let Some(date_postfix)`
WritesDated(date_postfix, w) == w # None /\ date_postfix # None

\* the closure hands the line to writeln! whenever there is a writer
Writes(date_postfix, w) == w # None

\* the I/O errors a drop with outcome r adds
FlushErr(r) == IF r.failed THEN {"flush"} ELSE {}

Cost(r) == IF r.failed THEN 1 ELSE 0

\* a process that makes the output directory before it looks at logtype
ProcessSkipAfterMkdir ==
    /\ pc = "process"
    /\ proco.logtype = None
    /\ dirs' = dirs \cup DirsUpTo(proco.outroot.dir)
    /\ Return("skipped", {})
    /\ UNCHANGED <<src, out, faults>>

\* logtype is None: "?" is printed and process returns Ok(())
ProcessSkip ==
    /\ pc = "process"
    /\ proco.logtype = None
    /\ Return("skipped", {})
    /\ UNCHANGED <<src, out, dirs, faults>>

\* create_dir_all(outroot.parent()) fails
ProcessMkdirErr ==
    /\ pc = "process"
    /\ proco.logtype # None
    /\ faults < MaxFaults /\ faults' = faults + 1
    /\ Return("error", {"mkdir"})
    /\ UNCHANGED <<src, out, dirs>>

\* the directory is there, File::open of the source fails
ProcessOpenErr ==
    /\ pc = "process"
    /\ proco.logtype # None
    /\ faults < MaxFaults /\ faults' = faults + 1
    /\ dirs' = dirs \cup DirsUpTo(proco.outroot.dir)
    /\ Return("error", {"open"})
    /\ UNCHANGED <<src, out>>

\* the directory is there and the source is open: the fold begins with
\* (String::new(), None)
ProcessOpen ==
    /\ pc = "process"
    /\ proco.logtype # None
    /\ dirs' = dirs \cup DirsUpTo(proco.outroot.dir)
    /\ pc' = "fold"
    /\ pos' = 0
    /\ odp' = << >>
    /\ nbufw' = None
    /\ UNCHANGED <<src, out, queue, proco, res, stderr, year, faults, errs,
                   accepted, before, orig, call, argv, peak>>

\* bufr.lines() yields an Err, which filter_map(.. .ok()) drops: a line that
\* is not UTF-8 is passed over, after an I/O error the read is done again,
\* and again for as long as it fails
FoldReadErr ==
    /\ pc = "fold"
    /\ \/ /\ pos < Len(Content) /\ Content[pos + 1] = Bad
          /\ pos' = pos + 1
          /\ UNCHANGED faults
       \/ /\ pos < Len(Content) /\ Content[pos + 1] = Stuck
          /\ UNCHANGED <<pos, faults>>
       \/ /\ faults < MaxFaults /\ faults' = faults + 1
          /\ UNCHANGED pos
    /\ errs' = errs \cup {"read"}
    /\ UNCHANGED <<src, out, dirs, queue, pc, proco, odp, nbufw, res, stderr,
                   year, accepted, before, orig, call, argv, peak>>

\* a date taken with the year the clock had when the run began
DateOfNextStartYear ==
    determine_date(Unwrap(proco.logtype), Text(Content[pos + 1]), FirstYear)

\* the date of the line the fold is about to take
DateOfNext == determine_date(Unwrap(proco.logtype), Text(Content[pos + 1]), year)

HasNext == pc = "fold" /\ pos < Len(Content) /\ Content[pos + 1] \notin {Bad, Stuck}

\* the closure took a line with writer w1 (after a possible reopening) on
\* tree o1: writeln! puts the line in the buffer, which is written out
\* first when it is full
WriteLine(o1, w1, wr, line) ==
    /\ out' = IF wr /\ Len(Unwrap(w1).buf) >= BufCap
              THEN WriteOut(o1, Unwrap(w1), Len(Unwrap(w1).buf))
              ELSE o1
    /\ nbufw' = IF wr
                THEN Some([Unwrap(w1) EXCEPT
                             !.buf = (IF Len(@) >= BufCap THEN << >> ELSE @) \o <<line>>])
                ELSE w1
    /\ accepted' = IF wr THEN Append(accepted, <<Unwrap(w1).file, line>>)
                   ELSE accepted

\* an assignment that drops the writer held before it opens the new file
CloseThenOpen(ow, most) == IF most < 1 THEN 1 ELSE most

\* the files open at once while `nbufw = Some(BufWriter::new(..open(..)?))`
\* runs with the writer ow in nbufw: the right-hand side opens the new file
\* first, the assignment then drops the writer that nbufw held
OpenAtReopen(ow, most) ==
    IF ow # None /\ most < 2 THEN 2 ELSE IF most < 1 THEN 1 ELSE most

\* the closure on a line whose date opens the file f: f is opened, the
\* writer held so far is dropped, the line is written
FoldReopen(line, date_postfix, f) ==
    \E r \in DropWriter(out, nbufw, faults < MaxFaults) :
       /\ WriteLine(OpenAppend(r.out, f), Some([file |-> f, buf |-> << >>]),
                    Writes(date_postfix, Some([file |-> f, buf |-> << >>])), line)
       /\ odp' = Unwrap(date_postfix)
       /\ faults' = faults + Cost(r)
       /\ errs' = errs \cup FlushErr(r)
       /\ peak' = OpenAtReopen(nbufw, peak)

\* the closure on a line that opens no file
FoldSame(line, date_postfix) ==
    /\ WriteLine(out, nbufw, Writes(date_postfix, nbufw), line)
    /\ UNCHANGED <<odp, faults, errs, peak>>

FoldClosure(line, date_postfix) ==
    IF Reopens(date_postfix, odp)
    THEN FoldReopen(line, date_postfix,
                    new_fname(proco.outroot, Unwrap(date_postfix)))
    ELSE FoldSame(line, date_postfix)

\* one line goes through the closure and the closure returns Ok
FoldLine ==
    /\ HasNext
    /\ FoldClosure(Content[pos + 1], DateOfNext)
    /\ pos' = pos + 1
    /\ UNCHANGED <<src, dirs, queue, pc, proco, res, stderr, year, before, orig,
                   call, argv>>

\* the open of the new output file fails: the closure returns the error,
\* the writer it held is dropped
FoldOpenErr ==
    /\ HasNext
    /\ Reopens(DateOfNext, odp)
    /\ faults < MaxFaults
    /\ \E r \in DropWriter(out, nbufw, faults + 1 < MaxFaults) :
          /\ out' = r.out
          /\ faults' = faults + 1 + Cost(r)
          /\ Return("error", {"create"} \cup FlushErr(r))
    /\ UNCHANGED <<src, dirs>>

\* does the closure write this line with the writer it holds, the buffer
\* of which is full
WritesOnFull(date_postfix) ==
    /\ ~Reopens(date_postfix, odp)
    /\ Writes(date_postfix, nbufw)
    /\ Len(Unwrap(nbufw).buf) >= BufCap

\* the buffer is full and writing it out fails after k lines: writeln!
\* returns the error, the line is not taken, the writer is dropped
FoldWriteErr ==
    /\ HasNext
    /\ WritesOnFull(DateOfNext)
    /\ faults < MaxFaults
    /\ \E k \in 0..(Len(Unwrap(nbufw).buf) - 1) :
       \E r \in DropWriter(WriteOut(out, Unwrap(nbufw), k),
                           Some(Rest(Unwrap(nbufw), k)), faults + 1 < MaxFaults) :
          /\ out' = r.out
          /\ faults' = faults + 1 + Cost(r)
          /\ Return("error", {"write"} \cup FlushErr(r))
    /\ UNCHANGED <<src, dirs>>

\* the lines are through: the accumulator is dropped, the tick is printed
\* and remove_file deletes the source
ProcessFinish ==
    /\ pc = "fold" /\ pos = Len(Content)
    /\ \E r \in DropWriter(out, nbufw, faults < MaxFaults) :
          /\ out' = r.out
          /\ faults' = faults + Cost(r)
          /\ Return("split", FlushErr(r))
    /\ src' = remove_file(src, proco.path)
    /\ UNCHANGED dirs

\* the lines are through and remove_file fails: process returns its error
ProcessRemoveErr ==
    /\ pc = "fold" /\ pos = Len(Content)
    /\ faults < MaxFaults
    /\ \E r \in DropWriter(out, nbufw, faults + 1 < MaxFaults) :
          /\ out' = r.out
          /\ faults' = faults + 1 + Cost(r)
          /\ Return("error", {"remove"} \cup FlushErr(r))
    /\ UNCHANGED <<src, dirs>>

(***************************************************************************)
(* main, degunzip_all_the_files and gunzip_all_the_files                   *)
(***************************************************************************)
\* when main returns early, pc is "abort" and errs holds what failed
\* the first argument is missing or is no folder
MainInputErr ==
    /\ pc = "main"
    /\ Unwrap(argv).input # "dir"
    /\ pc' = "abort"
    /\ errs' = {"input"}
    /\ UNCHANGED <<src, out, dirs, queue, proco, pos, odp, nbufw, res, stderr, year,
                   faults, accepted, before, orig, call, argv, peak>>

\* the output path exists and is no folder
MainOutputNotDir ==
    /\ pc = "main"
    /\ Unwrap(argv).input = "dir"
    /\ << >> \notin dirs /\ OutputRoot \in DOMAIN out
    /\ pc' = "abort"
    /\ errs' = {"outroot"}
    /\ UNCHANGED <<src, out, dirs, queue, proco, pos, odp, nbufw, res, stderr, year,
                   faults, accepted, before, orig, call, argv, peak>>

\* the output path does not exist and create_dir_all fails
MainCreateErr ==
    /\ pc = "main"
    /\ Unwrap(argv).input = "dir"
    /\ << >> \notin dirs /\ OutputRoot \notin DOMAIN out
    /\ faults < MaxFaults /\ faults' = faults + 1
    /\ pc' = "abort"
    /\ errs' = {"outroot"}
    /\ UNCHANGED <<src, out, dirs, queue, proco, pos, odp, nbufw, res, stderr, year,
                   accepted, before, orig, call, argv, peak>>

\* the output folder is there, or is made: degunzip_all_the_files begins
MainBegin ==
    /\ pc = "main"
    /\ Unwrap(argv).input = "dir"
    /\ << >> \in dirs \/ OutputRoot \notin DOMAIN out
    /\ dirs' = dirs \cup {<< >>}
    /\ pc' = "degunzip"
    /\ queue' = Walked(src)
    /\ UNCHANGED <<src, out, proco, pos, odp, nbufw, res, stderr, year, faults, errs,
                   accepted, before, orig, call, argv, peak>>

\* compress::degunzip(p) on the tree: the trees it can leave, with whether
\* it returned an error and whether an I/O operation failed (can it: mayFail);
\* File::create and write_all leave the lines written, whatever the file held
degunzip(tree, p, mayFail) ==
    (IF tree[p].ok
     THEN {[tree |-> (with_extension_empty(p) :> tree[p].lines) @@ remove_file(tree, p),
            failed |-> FALSE, cost |-> 0]}
     ELSE {[tree |-> tree, failed |-> TRUE, cost |-> 0]})
    \cup
    (IF mayFail
     THEN {[tree |-> tree, failed |-> TRUE, cost |-> 1]}
          \cup (IF tree[p].ok
                THEN {[tree |-> (with_extension_empty(p) :> SubSeq(tree[p].lines, 1, k))
                                @@ tree,
                       failed |-> TRUE, cost |-> 1] : k \in 0..Len(tree[p].lines)}
                ELSE {})
     ELSE {})

\* an entry whose extension is not gz: "-" is printed
DegunzipSkip ==
    /\ pc = "degunzip" /\ queue # << >>
    /\ extension(Head(queue)) # Some(<<"g", "z">>)
    /\ queue' = Tail(queue)
    /\ UNCHANGED <<src, out, dirs, pc, proco, pos, odp, nbufw, res, stderr, year,
                   faults, errs, accepted, before, orig, call, argv, peak>>

\* an entry whose extension is gz is decompressed
DegunzipOne ==
    /\ pc = "degunzip" /\ queue # << >>
    /\ extension(Head(queue)) = Some(<<"g", "z">>)
    /\ \E r \in degunzip(src, Head(queue), FALSE) :
          /\ ~r.failed
          /\ src' = r.tree
    /\ queue' = Tail(queue)
    /\ UNCHANGED <<out, dirs, pc, proco, pos, odp, nbufw, res, stderr, year,
                   faults, errs, accepted, before, orig, call, argv, peak>>

\* a pass that prints the error of degunzip and goes on with the walk
DegunzipErrGoesOn ==
    /\ pc = "degunzip" /\ queue # << >>
    /\ extension(Head(queue)) = Some(<<"g", "z">>)
    /\ \E r \in degunzip(src, Head(queue), faults < MaxFaults) :
          /\ r.failed
          /\ src' = r.tree
          /\ faults' = faults + r.cost
    /\ queue' = Tail(queue)
    /\ errs' = {"degunzip"}
    /\ UNCHANGED <<out, dirs, pc, proco, pos, odp, nbufw, res, stderr, year,
                   accepted, before, orig, call, argv, peak>>

\* degunzip returns an error: degunzip_all_the_files returns it and main
\* prints it and returns
DegunzipErr ==
    /\ pc = "degunzip" /\ queue # << >>
    /\ extension(Head(queue)) = Some(<<"g", "z">>)
    /\ \E r \in degunzip(src, Head(queue), faults < MaxFaults) :
          /\ r.failed
          /\ src' = r.tree
          /\ faults' = faults + r.cost
    /\ pc' = "abort"
    /\ errs' = {"degunzip"}
    /\ UNCHANGED <<out, dirs, queue, proco, pos, odp, nbufw, res, stderr, year,
                   accepted, before, orig, call, argv, peak>>

\* degunzip_all_the_files returns Ok: main calls all_files
DegunzipReturn ==
    /\ pc = "degunzip" /\ queue = << >>
    /\ pc' = "walk"
    /\ queue' = Walked(src)
    /\ orig' = src
    /\ res' = [p \in (DOMAIN src) \cup (DOMAIN res) |-> NoResult]
    /\ UNCHANGED <<src, out, dirs, proco, pos, odp, nbufw, stderr, year, faults, errs,
                   accepted, before, call, argv, peak>>

\* ISO_DATE_REGEX, -\d{4}-\d{2}-\d{2}$, on s, the last part of the name
\* of a file (the match has no dot and no slash in it)
ISO_DATE_REGEX(s) ==
    /\ Len(s) >= 11
    /\ At(s, Len(s) - 10) = "-" /\ DigitsAt(s, Len(s) - 9, 4)
    /\ At(s, Len(s) - 5) = "-" /\ DigitsAt(s, Len(s) - 4, 2)
    /\ At(s, Len(s) - 2) = "-" /\ DigitsAt(s, Len(s) - 1, 2)

\* filesystem::add_extension(path, addition)
add_extension(p, addition) == Path(p.dir, Append(p.name, addition))

\* compress::gunzip(f) on the tree: the trees it can leave, with whether it
\* returned an error.  OpenOptions::new().write(true).create(true) does not
\* empty a file that is there: behind the new stream the end of what it held
\* remains when that was longer (over)
gunzip(tree, f, mayFail) ==
    {[tree |-> (add_extension(f, <<"g", "z">>) :>
                   [Gz(tree[f]) EXCEPT !.over = longer]) @@ remove_file(tree, f),
      failed |-> FALSE, cost |-> 0] :
        longer \in {FALSE} \cup {add_extension(f, <<"g", "z">>) \in DOMAIN tree}}
    \cup
    (IF mayFail
     THEN {[tree |-> tree, failed |-> TRUE, cost |-> 1]}
          \cup {[tree |-> (add_extension(f, <<"g", "z">>) :>
                             [Gz(tree[f]) EXCEPT !.ok = ok, !.over = longer]) @@ tree,
                 failed |-> TRUE, cost |-> 1] :
                   ok \in BOOLEAN,
                   longer \in {FALSE} \cup {add_extension(f, <<"g", "z">>) \in DOMAIN tree}}
     ELSE {})

\* all_files has returned Ok to main: gunzip_all_the_files begins
MainGunzipBegin ==
    /\ pc = "done"
    /\ argv # None
    /\ pc' = "gunzip"
    /\ proco' = NoProco
    /\ before' = [out |-> out, dirs |-> dirs]
    /\ UNCHANGED <<src, out, dirs, queue, pos, odp, nbufw, res, stderr, year, faults,
                   errs, accepted, orig, call, argv, peak>>

\* a pass that compresses every file that is not compressed
PlainFiles(tree) == {f \in DOMAIN tree : extension(f) # Some(<<"g", "z">>)}

\* the files of the output tree whose path ISO_DATE_REGEX matches
DatedFiles(tree) ==
    {f \in DOMAIN tree : Len(f.name) >= 1 /\ ISO_DATE_REGEX(f.name[Len(f.name)])}

\* the walk yields a file whose name ends in a date: it is compressed
GunzipOne ==
    /\ pc = "gunzip"
    /\ \E f \in DatedFiles(out) :
       \E r \in gunzip(out, f, FALSE) :
          /\ ~r.failed
          /\ out' = r.tree
    /\ UNCHANGED <<src, dirs, queue, pc, proco, pos, odp, nbufw, res, stderr, year,
                   faults, errs, accepted, before, orig, call, argv, peak>>

\* gunzip returns an error: gunzip_all_the_files returns it and main prints
\* it and returns
GunzipErr ==
    /\ pc = "gunzip"
    /\ \E f \in DatedFiles(out) :
       \E r \in gunzip(out, f, faults < MaxFaults) :
          /\ r.failed
          /\ out' = r.tree
          /\ faults' = faults + r.cost
    /\ pc' = "abort"
    /\ errs' = {"gunzip"}
    /\ UNCHANGED <<src, dirs, queue, proco, pos, odp, nbufw, res, stderr, year,
                   accepted, before, orig, call, argv, peak>>

\* the walk of the output tree is over: main returns
GunzipReturn ==
    /\ pc = "gunzip"
    /\ DatedFiles(out) = {}
    /\ pc' = "exit"
    /\ UNCHANGED <<src, out, dirs, queue, proco, pos, odp, nbufw, res, stderr, year,
                   faults, errs, accepted, before, orig, call, argv, peak>>

\* the clock passes a new year; its year is read for Syslog lines only, so
\* the clock is let advance only where it is about to be read
Tick ==
    /\ HasNext
    /\ proco.logtype = Some("Syslog")
    /\ year < LastYear
    /\ year' = year + 1
    /\ UNCHANGED <<src, out, dirs, queue, pc, proco, pos, odp, nbufw, res, stderr,
                   faults, errs, accepted, before, orig, call, argv, peak>>

Next ==
    \/ AllFilesSkip
    \/ OneFileNew
    \/ AllFilesReturn
    \/ DetermineTypeOk
    \/ DetermineTypeOpenErr
    \/ DetermineTypeReadErr
    \/ ProcessSkip
    \/ ProcessMkdirErr
    \/ ProcessOpenErr
    \/ ProcessOpen
    \/ FoldReadErr
    \/ FoldLine
    \/ FoldOpenErr
    \/ FoldWriteErr
    \/ ProcessFinish
    \/ ProcessRemoveErr
    \/ Tick
    \/ MainInputErr
    \/ MainOutputNotDir
    \/ MainCreateErr
    \/ MainBegin
    \/ DegunzipSkip
    \/ DegunzipOne
    \/ DegunzipErr
    \/ DegunzipReturn
    \/ MainGunzipBegin
    \/ GunzipOne
    \/ GunzipErr
    \/ GunzipReturn

Spec == Init /\ [][Next]_vars

(***************************************************************************)
(* LaterSpec: a run of main on an output folder in which an earlier run    *)
(* of main has left the compressed file of a day                           *)
(***************************************************************************)
\* main is entered; the output folder holds the compressed file that an
\* earlier run made of the lines it split off for the day of LIsoA2; the
\* input tree is one of RunInputs, or has a rotated file of no known type
LaterInit ==
    \E tree \in RunInputs \cup {(RotatedTwo :> <<IdxIsoA, IdxCont, IdxCont>>)
                                  @@ (RotatedThree :> <<IdxCont>>) @@ (ActiveLog :> << >>)},
       earlier \in {<<IdxIsoA2>>, <<IdxIsoA2, IdxCont>>} :
       /\ InitFiles(tree)
       /\ out = (add_extension(new_fname(base_output_path(RotatedTwo),
                                         Unwrap(determine_date("Iso", LIsoA2, FirstYear))),
                               <<"g", "z">>) :> Gz(earlier))
       /\ dirs = {<< >>, <<"d">>}
       /\ pc = "main"
       /\ year = FirstYear
       /\ call = NoCall
       /\ argv = Some([input |-> "dir"])

\* the steps of that run: its arguments are good and its files have no
\* Syslog line
LaterNext ==
    \/ MainBegin
    \/ DegunzipSkip
    \/ DegunzipOne
    \/ DegunzipErr
    \/ DegunzipReturn
    \/ AllFilesSkip
    \/ OneFileNew
    \/ AllFilesReturn
    \/ DetermineTypeOk
    \/ DetermineTypeOpenErr
    \/ DetermineTypeReadErr
    \/ ProcessSkip
    \/ ProcessMkdirErr
    \/ ProcessOpenErr
    \/ ProcessOpen
    \/ FoldReadErr
    \/ FoldLine
    \/ FoldOpenErr
    \/ FoldWriteErr
    \/ ProcessFinish
    \/ ProcessRemoveErr
    \/ MainGunzipBegin
    \/ GunzipOne
    \/ GunzipErr
    \/ GunzipReturn

LaterSpec == LaterInit /\ [][LaterNext]_vars

(***************************************************************************)
(* DateSpec: determine_date on its own, called once on a line that is      *)
(* written as its type writes the day (y, m, d)                            *)
(***************************************************************************)
\* n on two digits, y on four
TwoDigits(n) == <<AsciiDigits[(n \div 10) + 1], AsciiDigits[(n % 10) + 1]>>
FourDigits(y) == TwoDigits(y \div 100) \o TwoDigits(y % 100)

\* the day of the month as syslog writes it, on two characters
SyslogDay(d, pad) == IF d < 10 THEN <<pad, AsciiDigits[d + 1]>> ELSE TwoDigits(d)

\* a line of type lt that carries the day (y, m, d); pad is what a Syslog
\* line puts before a day of one digit
LineOf(lt, y, m, d, pad) ==
    CASE lt = "Syslog" ->
            MonthNames[m] \o <<" ">> \o SyslogDay(d, pad) \o <<" ", "h", " ", "x">>
      [] lt = "Iso" ->
            FourDigits(y) \o <<"-">> \o TwoDigits(m) \o <<"-">> \o TwoDigits(d)
               \o <<" ", "x">>
      [] lt = "ApacheAccess" ->
            <<"i", "p", " ", "[">> \o TwoDigits(d) \o <<"/">> \o MonthNames[m]
               \o <<"/">> \o FourDigits(y) \o <<":", "1", "0">>
      [] lt = "ApacheError" ->
            <<"[">> \o WeekdayNames[WeekdayOf(y, m, d)] \o <<" ">> \o MonthNames[m]
               \o <<" ">> \o TwoDigits(d)
               \o <<" ", "0", "2", ":", "0", "7", ":", "1", "6", ".",
                    "6", "5", "6", "8", "0", "8", " ">>
               \o FourDigits(y) \o <<"]", " ", "x">>
      [] lt = "GrafanaLogs" ->
            <<"t", "=">> \o FourDigits(y) \o <<"-">> \o TwoDigits(m) \o <<"-">>
               \o TwoDigits(d)
               \o <<"T", "1", "8", ":", "1", "4", ":", "2", "1", "+", "0", "2",
                    "0", "0", " ", "l", "v", "l", "=", "i">>

\* the years of the lines: leap years, years that are none, and the
\* years of the clock
DateYears == {2000, 2020, 2100} \cup (FirstYear..LastYear)

\* a Syslog line carries no year: its day is taken in the year of the clock
DateCalls ==
    {[lt |-> lt, want |-> <<y, m, d>>, line |-> LineOf(lt, y, m, d, "0"),
      got |-> None, done |-> FALSE] :
        lt \in LogTypes \ {"Syslog"}, y \in DateYears, m \in 1..12, d \in 1..31}
    \cup
    {[lt |-> "Syslog", want |-> <<y, m, d>>, line |-> LineOf("Syslog", y, m, d, pad),
      got |-> None, done |-> FALSE] :
        y \in FirstYear..LastYear, m \in 1..12, d \in 1..31, pad \in {" ", "0"}}

DateInit ==
    /\ InitFiles(<< >>)
    /\ out = << >>
    /\ dirs = {<< >>}
    /\ pc = "walk"
    /\ argv = None
    /\ \E c \in DateCalls :
          /\ call = c
          /\ year = IF c.lt = "Syslog" THEN c.want[1] ELSE FirstYear

\* determine_date(lt, line) is called and returns
DetermineDateCall ==
    /\ ~call.done
    /\ call.line # << >>
    /\ call' = [call EXCEPT !.got = determine_date(call.lt, call.line, year),
                            !.done = TRUE]
    /\ UNCHANGED <<src, out, dirs, queue, pc, proco, pos, odp, nbufw, res, stderr,
                   year, faults, errs, accepted, before, orig, argv, peak>>

DateNext == DetermineDateCall

DateSpec == DateInit /\ [][DateNext]_vars

(***************************************************************************)
(* Properties of one_file, process and all_files                           *)
(***************************************************************************)
\* the one_file call at hand has returned
Returned == proco # NoProco /\ res[proco.path].outcome # "none"

\* the type the processor at hand has found
TypeAtHand == Unwrap(proco.logtype)

\* what the output file f held when the call at hand began
HeldBefore(f) == IF f \in DOMAIN before.out THEN before.out[f] ELSE << >>

RECURSIVE LinesTakenFrom(_, _, _)
\* the lines among acc[n..] that writeln! took for the file f, in order
LinesTakenFrom(acc, n, f) ==
    IF n > Len(acc) THEN << >>
    ELSE (IF acc[n][1] = f THEN <<acc[n][2]>> ELSE << >>)
         \o LinesTakenFrom(acc, n + 1, f)

\* the lines writeln! took for the file f in the call at hand
LinesTaken(f) == LinesTakenFrom(accepted, 1, f)

(***************************************************************************)
(* C1                                                                      *)
(***************************************************************************)
C1Order == <<"Syslog", "Iso", "ApacheAccess", "ApacheError", "GrafanaLogs">>

\* the pattern of type number n matches the line and no earlier one does
C1FirstAt(n, line) ==
    /\ is_match(C1Order[n], line)
    /\ \A m \in 1..(n - 1) : ~is_match(C1Order[m], line)

C2_NoDateLineNotWritten ==
    pc = "fold" =>
       \A i \in 1..Len(accepted) :
          find(TypeAtHand, Text(accepted[i][2])) # None

\* the fold takes a line in which no date is found
C2TakesUndated ==
    /\ HasNext
    /\ find(TypeAtHand, Text(Content[pos + 1])) = None
    /\ pos' = pos + 1

\* C2, amended: a line in which no date is found opens no output file and
\* is no error, and it is not left out: a writer is open when it arrives,
\* the one of the most recent dated line, and the line is appended to that
\* writer's file; the open date and the open file stay as they are.
C2_NoDateLineAppended ==
    [][C2TakesUndated =>
          /\ nbufw # None /\ nbufw' # None
          /\ Unwrap(nbufw').file = Unwrap(nbufw).file
          /\ odp' = odp
          /\ DOMAIN out' = DOMAIN out
          /\ accepted' = Append(accepted, <<Unwrap(nbufw).file, Content[pos + 1]>>)
          /\ errs' = errs
          /\ pc' = "fold"]_vars

\* the fold has taken an undated second or later line and writeln! has
\* put it in the open file
C2_Witness ==
    /\ pc = "fold" /\ pos >= 2
    /\ Content[pos] # Bad
    /\ find(TypeAtHand, Text(Content[pos])) = None
    /\ nbufw # None
    /\ Len(accepted) >= 2
    /\ accepted[Len(accepted)] = <<Unwrap(nbufw).file, Content[pos]>>

(***************************************************************************)
(* C3                                                                      *)
(***************************************************************************)
\* every line of c is readable and has a date as a line of type lt
AllDated(c, lt) ==
    \A i \in 1..Len(c) : c[i] # Bad /\ find(lt, Text(c[i])) # None

\* the dates of the lines of c, line by line, none for a line that cannot
\* be read
C3Dates(c, lt, y) ==
    [i \in 1..Len(c) |->
        IF c[i] = Bad THEN None ELSE determine_date(lt, Text(c[i]), y)]

RECURSIVE C3LinesOfDate(_, _, _, _)
\* the lines among c[n..] whose date, as dates gives it, is d, in order
C3LinesOfDate(dates, c, n, d) ==
    IF n > Len(c) THEN << >>
    ELSE (IF dates[n] = Some(d) THEN <<c[n]>> ELSE << >>)
         \o C3LinesOfDate(dates, c, n + 1, d)

\* the output tree after a file with lines c, all with a date, the dates
\* being dates, was split to root
C3SplitAs(dates, c, root) ==
    (\A i \in 1..Len(c) : dates[i] # None) =>
       /\ DOMAIN out = DOMAIN before.out
                          \cup {new_fname(root, Unwrap(dates[i])) : i \in 1..Len(c)}
       /\ \A i \in 1..Len(c) :
             out[new_fname(root, Unwrap(dates[i]))] =
                HeldBefore(new_fname(root, Unwrap(dates[i])))
                   \o C3LinesOfDate(dates, c, 1, Unwrap(dates[i]))
       /\ \A f \in DOMAIN before.out :
             (\A i \in 1..Len(c) : f # new_fname(root, Unwrap(dates[i])))
                => out[f] = before.out[f]

\* C3: when a file all of whose lines have a date is split without an I/O
\* error (and, for Syslog, without a new year passing), there is one output
\* file <prefix>-<date> for each date found in it, that file holds what it
\* held before followed by exactly the lines of that date in their order
\* in the source, and the other output files are as they were.
C3_PerDateFiles ==
    (/\ Returned
     /\ res[proco.path].outcome = "split"
     /\ errs = {}
     /\ proco.logtype = Some("Syslog") => year = FirstYear)
    => C3SplitAs(C3Dates(orig[proco.path], TypeAtHand, year), orig[proco.path],
                 proco.outroot)

\* the dates of LIsoA and LIsoB
C3DateA == SubSeq(LIsoA, 1, 10)
C3DateB == SubSeq(LIsoB, 1, 10)

\* lines of dates D1, D1, D2, D1 were split: the file of D1 was opened
\* twice and holds its three lines, the file of D2 its one
C3_Witness ==
    /\ Returned
    /\ res[proco.path].outcome = "split"
    /\ errs = {}
    /\ orig[proco.path] = <<IdxIsoA, IdxIsoA2, IdxIsoB, IdxIsoA>>
    /\ out[new_fname(proco.outroot, C3DateA)] = <<IdxIsoA, IdxIsoA2, IdxIsoA>>
    /\ out[new_fname(proco.outroot, C3DateB)] = <<IdxIsoB>>

(***************************************************************************)
(* C4                                                                      *)
(***************************************************************************)
\* C4 as stated: the source of the call at hand is gone only when no I/O
\* error was met in the call, every line of the source was handed to
\* writeln!, and every line handed to writeln! is in its output file.
C4_DeletedOnlyAfterCleanRun ==
    (proco # NoProco /\ proco.path \notin DOMAIN src) =>
       /\ errs = {}
       /\ Len(accepted) = Len(orig[proco.path])
       /\ \A f \in DOMAIN out : out[f] = HeldBefore(f) \o LinesTaken(f)

(***************************************************************************)
(* C5                                                                      *)
(***************************************************************************)
\* C5 as stated: a call of one_file that met an I/O error while it opened
\* or read the source, made the output directory, opened an output file or
\* wrote to it has returned an error, which all_files has printed with the
\* path, and the source is still there.
C5_ErrorsReturned ==
    (Returned /\ errs \cap {"open", "read", "mkdir", "create", "write"} # {}) =>
       /\ res[proco.path].outcome = "error"
       /\ proco.path \in stderr
       /\ proco.path \in DOMAIN src

(***************************************************************************)
(* C6                                                                      *)
(***************************************************************************)
\* C6: a file for which one_file found a type and returned Ok is no longer
\* in the input tree.
C6_SplitSourceGone ==
    \A p \in DOMAIN res :
       (res[p].outcome \in {"skipped", "split"} /\ res[p].logtype # None)
          => p \notin DOMAIN src

\* one_file has returned Ok for a classified file of the tree, which is gone
C6_Witness ==
    \E p \in DOMAIN orig :
       /\ res[p].outcome = "split"
       /\ res[p].logtype # None
       /\ p \notin DOMAIN src

(***************************************************************************)
(* C7                                                                      *)
(***************************************************************************)
\* C7: when determine_type has found no type and met no error, one_file
\* returns Ok and nothing is printed as an error; the source is in place
\* with the lines it had, and the output tree has the directories and the
\* files, with the contents, it had when the call began.
C7_UnclassifiedUntouched ==
    /\ (Returned /\ res[proco.path].logtype = None /\ errs = {}) =>
          /\ res[proco.path].outcome = "skipped"
          /\ proco.path \notin stderr
          /\ out = before.out
          /\ dirs = before.dirs
    /\ \A p \in DOMAIN res :
          res[p].outcome = "skipped" => p \in DOMAIN src /\ src[p] = orig[p]

\* one_file has returned for a file without a type, in a tree where no
\* output directory has been made yet
C7_Witness ==
    /\ Returned
    /\ res[proco.path].outcome = "skipped"
    /\ Len(orig[proco.path]) > 0
    /\ proco.path \in DOMAIN src
    /\ proco.outroot.dir \notin dirs
    /\ out = << >>

C9SameTwice ==
    /\ pc = "done"
    /\ faults = 0
    /\ RotatedOne \in DOMAIN orig /\ RotatedTwo \in DOMAIN orig
    /\ orig[RotatedOne] = orig[RotatedTwo]
    /\ res[RotatedOne].outcome = "split"
    /\ res[RotatedTwo].outcome = "split"

\* C9: output files are opened to append and are never truncated: when two
\* sources with the same lines are split to the same prefix, each output
\* file holds the lines that were written to it for one source followed
\* by the same lines again, so every written line is there twice, the
\* second copy after the first.
C9_SecondCopyAfterFirst ==
    C9SameTwice =>
       \A f \in DOMAIN out :
          /\ LinesTaken(f) # << >>
          /\ out[f] = LinesTaken(f) \o LinesTaken(f)

\* the same lines of two dates were split twice: two output files
C9_Witness ==
    /\ C9SameTwice
    /\ Cardinality(DOMAIN out) = 2
    /\ \A f \in DOMAIN out : Len(out[f]) = 2

(***************************************************************************)
(* C10                                                                     *)
(***************************************************************************)
C10Sentinel == <<"0", "0", "0", "1", "-", "0", "1", "-", "0", "1">>

\* the date pattern of lt was found in the line at matched_part and what
\* it matched does not parse as a date
C10FailsAt(lt, line, y, matched_part) ==
    /\ matched_part # None
    /\ ParseMatched(lt,
                    SubSeq(line, Unwrap(matched_part)[1], Unwrap(matched_part)[2]),
                    y) = None

C10Unparseable(lt, line, y) == C10FailsAt(lt, line, y, find(lt, line))

\* C10 as stated: once the fold has taken a line whose date was found and
\* does not parse, the open date is 0001-01-01 and the line has gone to
\* the writer of <prefix>-0001-01-01.
C10_SentinelIs0001 ==
    (/\ pc = "fold" /\ pos >= 1
     /\ Content[pos] # Bad
     /\ C10Unparseable(TypeAtHand, Text(Content[pos]), year))
    => /\ odp = C10Sentinel
       /\ nbufw # None
       /\ Unwrap(nbufw).file = new_fname(proco.outroot, C10Sentinel)

(***************************************************************************)
(* C11                                                                     *)
(***************************************************************************)
\* the patterns that match the line
C11Matching(line) == {t \in LogTypes : is_match(t, line)}

\* the place of a type in the order Syslog, Iso, ApacheAccess, ApacheError,
\* GrafanaLogs
C11Rank(t) ==
    CASE t = "Syslog" -> 1
      [] t = "Iso" -> 2
      [] t = "ApacheAccess" -> 3
      [] t = "ApacheError" -> 4
      [] t = "GrafanaLogs" -> 5

\* the type found is the one of the matching types that comes first
C11TypeAmong(matching, logtype) ==
    /\ \A t \in LogTypes : matching = {t} => logtype = Some(t)
    /\ matching = {} => logtype = None
    /\ \A t \in matching :
          (\E u \in matching : C11Rank(u) < C11Rank(t)) => logtype # Some(t)
    /\ logtype # None => Unwrap(logtype) \in matching

\* C11 as stated: whatever pattern the first line matches, the file is of
\* that pattern's type, also when the line matches another pattern too;
\* with no match it has no type.
C11_EveryMatchIsTheType ==
    pc \in {"process", "fold"} =>
       /\ \A t \in C11Matching(first_line(Content)) : proco.logtype = Some(t)
       /\ C11Matching(first_line(Content)) = {} => proco.logtype = None

\* C11, amended: when determine_type has returned Ok, a first line that
\* matches the pattern of one type only has made the file a file of that
\* type, a first line that matches none has left it without a type, and a
\* first line that matches the patterns of several types has made it a
\* file of the one that comes first in the order Syslog, Iso, ApacheAccess,
\* ApacheError, GrafanaLogs, not of the others.
C11_EarliestMatchIsTheType ==
    pc = "process" => C11TypeAmong(C11Matching(first_line(Content)), proco.logtype)

\* a first line that matches the Iso and the ApacheAccess pattern has made
\* the file an Iso file, not an ApacheAccess file
C11_Witness ==
    /\ pc = "process"
    /\ C11Matching(first_line(Content)) = {"Iso", "ApacheAccess"}
    /\ proco.logtype = Some("Iso")

(***************************************************************************)
(* C12                                                                     *)
(***************************************************************************)
\* January 5 of year y, as YYYY-MM-DD
C12Jan5(y) == Dec(y) \o <<"-", "0", "1", "-", "0", "5">>

\* C12 as stated: a file of the one line "Jan 5 b" (one space before the
\* day), split without an I/O error while the clock's year is y, leaves
\* that line in <prefix>-y-01-05.
C12_Jan5SingleSpace ==
    (/\ Returned /\ errs = {}
     /\ orig[proco.path] = <<IndexOf(LSys5b)>>)
    => /\ new_fname(proco.outroot, C12Jan5(year)) \in DOMAIN out
       /\ out[new_fname(proco.outroot, C12Jan5(year))] = <<IndexOf(LSys5b)>>

\* the fold of a Syslog file takes a line in which the pattern is found
C12TakesSyslog ==
    /\ HasNext
    /\ proco.logtype = Some("Syslog")
    /\ find("Syslog", Text(Content[pos + 1])) # None
    /\ pos' = pos + 1

\* C12, amended: the date of a Syslog line has the year the clock shows when
\* the line is processed (or is the fallback date): "Jan  5 a", the day
\* padded to two characters as the pattern asks, taken while the clock's
\* year is y, opens <prefix>-y-01-05 and goes to that file.
C12_YearOfTheClock ==
    [][C12TakesSyslog =>
          /\ SubSeq(odp', 1, 4) \in {Dec(year), <<"0", "0", "0", "0">>}
          /\ Content[pos + 1] = IndexOf(LSys5) =>
                /\ odp' = C12Jan5(year)
                /\ accepted'[Len(accepted')] =
                      <<new_fname(proco.outroot, C12Jan5(year)), Content[pos + 1]>>]_vars

\* "Jan  5 a" was taken after the clock had passed into the year after
\* FirstYear and went to the file of January 5 of that year
C12_Witness ==
    /\ pc = "fold" /\ pos = 1
    /\ proco.logtype = Some("Syslog")
    /\ Content[1] = IndexOf(LSys5)
    /\ year = FirstYear + 1
    /\ odp = C12Jan5(FirstYear + 1)
    /\ accepted = << <<new_fname(proco.outroot, C12Jan5(FirstYear + 1)), Content[1]>> >>

(***************************************************************************)
(* C13 (DateSpec)                                                          *)
(***************************************************************************)
\* the day (y, m, d) as YYYY-MM-DD
C13Iso(ymd) ==
    FourDigits(ymd[1]) \o <<"-">> \o TwoDigits(ymd[2]) \o <<"-">> \o TwoDigits(ymd[3])

RECURSIVE C14Grown(_)
\* by how many lines the output files of the set fs have grown in the call
\* at hand
C14Grown(fs) ==
    IF fs = {} THEN 0
    ELSE LET f == CHOOSE g \in fs : TRUE
         IN  (Len(out[f]) - Len(HeldBefore(f))) + C14Grown(fs \ {f})

\* the lines the call at hand has appended to output files, in all
C14Appended == C14Grown(DOMAIN out)

\* every line of c can be read
C14Readable(c) == \A i \in 1..Len(c) : c[i] # Bad

\* C14 as stated: after a split without an I/O error, the lines appended
\* are at most the lines of the source, and are as many exactly when every
\* line of the source has a date.
C14_AllWrittenIffAllDated ==
    (Returned /\ res[proco.path].outcome = "split" /\ errs = {}) =>
       /\ C14Appended <= Len(orig[proco.path])
       /\ (C14Appended = Len(orig[proco.path]))
             <=> AllDated(orig[proco.path], TypeAtHand)

\* C14, amended: the lines a call of one_file has appended are at most the
\* lines of the source; after a split they are as many exactly when every
\* line of the source could be read and no flush failed, whether or not
\* the lines have a date, and after a split without any I/O error they are
\* as many as the lines of the source.
C14_AllWrittenIffAllRead ==
    Returned =>
       /\ C14Appended <= Len(orig[proco.path])
       /\ res[proco.path].outcome = "split" =>
             /\ (C14Appended = Len(orig[proco.path]))
                   <=> (C14Readable(orig[proco.path]) /\ "flush" \notin errs)
             /\ errs = {} => C14Appended = Len(orig[proco.path])

\* a file with a line without a date was split without an I/O error and
\* as many lines were appended as it had
C14_Witness ==
    /\ Returned /\ res[proco.path].outcome = "split" /\ errs = {}
    /\ ~AllDated(orig[proco.path], TypeAtHand)
    /\ Len(orig[proco.path]) >= 2
    /\ C14Appended = Len(orig[proco.path])

(***************************************************************************)
(* Properties of main                                                      *)
(***************************************************************************)
\* a run of main is in all_files or past it
C15Splitting == argv # None /\ pc \in {"walk", "determine", "process", "fold", "done",
                                        "gunzip", "exit"}

\* the files of the tree whose extension is gz
C15Compressed(tree) == {p \in DOMAIN tree : extension(p) = Some(<<"g", "z">>)}

(***************************************************************************)
(* C15                                                                     *)
(***************************************************************************)
\* C15 as stated: main returns early only when the output root is no
\* folder or cannot be made.
C15_OnlyOutputRootAborts == pc = "abort" => errs = {"outroot"}

\* C15, amended: main returns early when the input path is missing or is no
\* folder, when the output root is no folder or cannot be made, and when
\* decompressing or compressing any single file fails.  After a failed
\* decompression no file is classified or split and nothing is compressed:
\* all_files is entered only when no compressed file is left in the input
\* tree.  Only a failure while splitting a file is passed over: when
\* gunzip_all_the_files is entered every rotated file has been handled,
\* whatever errors all_files met.
C15_AbortsOfMain ==
    /\ pc = "abort" => errs \in {{"input"}, {"outroot"}, {"degunzip"}, {"gunzip"}}
    /\ (pc = "abort" /\ errs # {"gunzip"}) =>
          /\ \A p \in DOMAIN res : res[p].outcome = "none"
          /\ DatedFiles(out) = {}
          /\ C15Compressed(out) = {}
    /\ C15Splitting => C15Compressed(src) = {}
    /\ (argv # None /\ pc \in {"gunzip", "exit"}) =>
          \A p \in DOMAIN orig : IsRotated(p) => res[p].outcome # "none"

\* main has returned because a file could not be decompressed, and a
\* rotated file of the input tree was never handed to one_file
C15_Witness ==
    /\ pc = "abort" /\ errs = {"degunzip"}
    /\ RotatedGz \in DOMAIN src
    /\ RotatedTwo \in DOMAIN src /\ res[RotatedTwo].outcome = "none"

(***************************************************************************)
(* C16                                                                     *)
(***************************************************************************)
\* the path p without its last extension, and with gz after it
C16Stem(p) == Path(p.dir, SubSeq(p.name, 1, Len(p.name) - 1))
C16GzOf(p) == Path(p.dir, p.name \o << <<"g", "z">> >>)

\* the name of f ends in -YYYY-MM-DD
C16EndsInDate(f) ==
    /\ Len(f.name) >= 1
    /\ Len(f.name[Len(f.name)]) >= 11
    /\ \A k \in 0..10 :
          IF k \in {0, 5, 8}
          THEN f.name[Len(f.name)][Len(f.name[Len(f.name)]) - 10 + k] = "-"
          ELSE IsAsciiDigit(f.name[Len(f.name)][Len(f.name[Len(f.name)]) - 10 + k])

\* the output tree made of tree by compressing the files whose name ends
\* in a date, and those only
C16PostPass(tree, made) ==
    /\ DOMAIN made = {f \in DOMAIN tree : ~C16EndsInDate(f)}
                        \cup {C16GzOf(f) : f \in {g \in DOMAIN tree : C16EndsInDate(g)}}
    /\ \A f \in DOMAIN tree :
          IF C16EndsInDate(f)
          THEN made[C16GzOf(f)] = [ok |-> TRUE, lines |-> tree[f], over |-> FALSE]
          ELSE made[f] = tree[f]

\* C16: in a run of main, all_files is entered only when every gz file of
\* the input tree is gone and the file named without the gz holds its
\* lines; while files are classified and split the input tree has no gz
\* file and the output tree no compressed file; a step that compresses an
\* output file is taken only when all_files has returned and every rotated
\* file has been handled; and when gunzip_all_the_files returns, exactly
\* the files of the output tree whose name ends in -YYYY-MM-DD have been
\* replaced by their compressed form.
C16_PassesInOrder ==
    [][argv # None =>
        /\ (pc = "degunzip" /\ pc' = "walk") =>
              \A p \in C15Compressed(orig) :
                 /\ p \notin DOMAIN src'
                 /\ C16Stem(p) \in DOMAIN src'
                 /\ src'[C16Stem(p)] = orig[p].lines
        /\ pc' \in {"walk", "determine", "process", "fold", "done"} =>
              /\ C15Compressed(src') = {}
              /\ C15Compressed(out') = {}
        /\ C15Compressed(out') # C15Compressed(out) =>
              /\ pc = "gunzip"
              /\ \A p \in DOMAIN orig : IsRotated(p) => res[p].outcome # "none"
        /\ (pc = "gunzip" /\ pc' = "exit") => C16PostPass(before.out, out')
    ]_vars

\* main has returned after the three passes: the decompressed file was
\* split, its output is compressed, and a file of the output tree whose
\* name has no date is as it was
C16_Witness ==
    /\ argv # None /\ pc = "exit"
    /\ RotatedThree \in DOMAIN res /\ res[RotatedThree].outcome = "split"
    /\ C15Compressed(out) # {}
    /\ \E f \in DOMAIN out : f \notin C15Compressed(out)

(***************************************************************************)
(* C17                                                                     *)
(***************************************************************************)
\* the extension of p is made of digits only
C17Numeric(p) ==
    /\ Len(p.name) >= 2
    /\ Len(p.name[Len(p.name)]) >= 1
    /\ \A k \in 1..Len(p.name[Len(p.name)]) : IsReDigit(p.name[Len(p.name)][k])

\* f is named <prefix>-<YYYY-MM-DD>, the prefix being p, in the same folder
\* below the other root, without its last extension
C17Named(f, p) ==
    /\ f.dir = p.dir
    /\ Len(f.name) = Len(p.name) - 1
    /\ \A k \in 1..(Len(f.name) - 1) : f.name[k] = p.name[k]
    /\ Len(f.name[Len(f.name)]) = Len(p.name[Len(f.name)]) + 11
    /\ SubSeq(f.name[Len(f.name)], 1, Len(p.name[Len(f.name)])) = p.name[Len(f.name)]
    /\ C16EndsInDate(f)

\* C17: the walk of all_files hands a path to one_file exactly when its
\* extension is made of digits only, with the output prefix that is the
\* path, below the output root, without that extension; a path with
\* another extension or none is passed over; and every file that the call
\* at hand has made in the output tree is named <prefix>-<YYYY-MM-DD>.
C17_RotatedFilesToPrefix ==
    [][/\ (pc = "walk" /\ queue # << >> /\ queue' # queue) =>
             IF C17Numeric(Head(queue))
             THEN /\ pc' = "determine"
                  /\ proco'.path = Head(queue)
                  /\ proco'.outroot = C16Stem(Head(queue))
             ELSE /\ pc' = "walk" /\ proco' = proco
                  /\ res' = res /\ src' = src /\ out' = out
       /\ proco' # NoProco =>
             \A f \in (DOMAIN out') \ (DOMAIN before'.out) : C17Named(f, proco'.path)
    ]_vars

\* a rotated file was split into a file that was not there, and the active
\* log, which has no numeric extension, was never handed to one_file
C17_Witness ==
    /\ Returned /\ res[proco.path].outcome = "split"
    /\ (DOMAIN out) \ (DOMAIN before.out) # {}
    /\ ActiveLog \in DOMAIN src /\ res[ActiveLog].outcome = "none"
    /\ ActiveLog \notin {queue[k] : k \in 1..Len(queue)}

(***************************************************************************)
(* C18                                                                     *)
(***************************************************************************)
\* the closure takes a line and returns Ok
C18TakesLine == HasNext /\ pos' = pos + 1 /\ pc' = "fold"

\* the file that the writer ow writes to, none when there is no writer
C18FileOf(ow) == IF ow = None THEN << >> ELSE <<Unwrap(ow).file>>

\* the writer held before the step was closed in it: it is no longer held,
\* and what it had in its buffer is in its file unless the flush failed
C18Closed ==
    nbufw # None =>
       /\ C18FileOf(nbufw') # C18FileOf(nbufw)
       /\ \/ out'[Unwrap(nbufw).file] = out[Unwrap(nbufw).file] \o Unwrap(nbufw).buf
          \/ "flush" \in errs'

\* the writer held before the step is held after it, with the line behind
\* what it had in its buffer, or alone when the full buffer was written out
C18Kept ==
    IF nbufw = None
    THEN nbufw' = None /\ out' = out
    ELSE /\ C18FileOf(nbufw') = C18FileOf(nbufw)
         /\ \/ /\ Unwrap(nbufw').buf = Append(Unwrap(nbufw).buf, Content[pos + 1])
               /\ out' = out
            \/ /\ Unwrap(nbufw').buf = <<Content[pos + 1]>>
               /\ out' = WriteOut(out, Unwrap(nbufw), Len(Unwrap(nbufw).buf))

\* C18: when the closure takes a line whose date is not the open date (none
\* at first), the file <prefix>-<date> is opened, is the file of the writer
\* held from then on and its date the open date, and the writer held
\* before is closed; when it takes a line whose date is the open date, or a
\* line without a date, the open date, the files of the output tree and the
\* writer held stay as they are, the line going to the buffer of that writer.
C18_ReopenOnDateChange ==
    [][C18TakesLine =>
          IF DateOfNext # None /\ DateOfNext # Some(odp)
          THEN /\ odp' = Unwrap(DateOfNext)
               /\ C18FileOf(nbufw') = <<new_fname(proco.outroot, odp')>>
               /\ new_fname(proco.outroot, odp') \in DOMAIN out'
               /\ Unwrap(nbufw').buf = <<Content[pos + 1]>>
               /\ C18Closed
          ELSE /\ odp' = odp
               /\ DOMAIN out' = DOMAIN out
               /\ C18Kept
    ]_vars

\* lines of dates D1, none, D1, D2 were taken: the file of D1 was opened at
\* the first line and closed at the fourth, where the file of D2 was opened
C18_Witness ==
    /\ proco # NoProco /\ pc = "fold" /\ pos = 4
    /\ orig[proco.path] = <<IdxIsoA, IdxCont, IdxIsoA2, IdxIsoB>>
    /\ out[new_fname(proco.outroot, C3DateA)] = <<IdxIsoA, IdxCont, IdxIsoA2>>
    /\ nbufw = Some([file |-> new_fname(proco.outroot, C3DateB), buf |-> <<IdxIsoB>>])

(***************************************************************************)
(* C19                                                                     *)
(***************************************************************************)
\* the call at hand has opened a file while it held the writer of another:
\* two lines that writeln! took one after the other went to different files
C19Switched ==
    \E i \in 1..(Len(accepted) - 1) : accepted[i][1] # accepted[i + 1][1]

C20_FlushedOrError ==
    Returned =>
       /\ nbufw = None
       /\ (res[proco.path].outcome = "split" /\ "flush" \notin errs) =>
             \A f \in DOMAIN out : out[f] = HeldBefore(f) \o LinesTaken(f)
       /\ "flush" \in errs => res[proco.path].outcome = "error"

(***************************************************************************)
(* C21                                                                     *)
(***************************************************************************)
\* C21 as stated: a call of process comes to its return, whatever the file
\* holds and whichever reads fail: when the fold has no line before it
\* that it can take, it has a step that changes the state of the call (it
\* passes over what it could not read, or ends the stream and returns)
\* and is not the failed read over again.
C21_OneFileReturns ==
    (pc = "fold" /\ ~HasNext) =>
       ENABLED <<FoldReadErr \/ ProcessFinish \/ ProcessRemoveErr>>_vars

(***************************************************************************)
(* C22                                                                     *)
(***************************************************************************)
\* the file of the most recent line with a date, at the line the fold is
\* about to take or before it
C22FileOfNext ==
    IF DateOfNext # None THEN <<new_fname(proco.outroot, Unwrap(DateOfNext))>>
    ELSE IF accepted # << >> THEN <<accepted[Len(accepted)][1]>>
    ELSE << >>

\* C22: the first line of a file that has a type has a date; from the
\* first line on the fold holds a writer; every line that the closure takes,
\* with a date or without, is handed to writeln! once, on the writer of the
\* file of the most recent line with a date, at that line or before it, the
\* lines taken before staying as they were; and after a split in which no
\* I/O operation failed every output file holds what it held followed by
\* the lines taken for it.
C22_EveryLineToLatestDate ==
    [][/\ (HasNext /\ pos' = pos + 1 /\ pc' = "fold") =>
             /\ pos = 0 => DateOfNext # None
             /\ C22FileOfNext # << >>
             /\ accepted' = Append(accepted, <<C22FileOfNext[1], Content[pos + 1]>>)
             /\ nbufw' # None
             /\ Unwrap(nbufw').file = C22FileOfNext[1]
       /\ (pc' = "fold" /\ pos' >= 1) => nbufw' # None
       /\ (Returned /\ res[proco.path].outcome = "split" /\ errs = {})' =>
             (\A f \in DOMAIN out : out[f] = HeldBefore(f) \o LinesTaken(f))'
    ]_vars

\* a line with a date, a line that cannot be read, a line without a date
\* and a line of another date: the third went to the file of the first
C22_Witness ==
    /\ proco # NoProco /\ pc = "fold" /\ pos = 4
    /\ orig[proco.path] = <<IdxIsoA, Bad, IdxCont, IdxIsoB>>
    /\ accepted = << <<new_fname(proco.outroot, C3DateA), IdxIsoA>>,
                     <<new_fname(proco.outroot, C3DateA), IdxCont>>,
                     <<new_fname(proco.outroot, C3DateB), IdxIsoB>> >>

(***************************************************************************)
(* C23                                                                     *)
(***************************************************************************)
\* the lines that the file f of the tree holds, compressed or not
C23LinesOf(tree, f) ==
    IF extension(f) = Some(<<"g", "z">>)
    THEN (IF tree[f].ok THEN tree[f].lines ELSE << >>)
    ELSE tree[f]

\* C23 as stated: when a later run of main has returned after its
\* compression pass, every line that the compressed files of the output
\* tree held when the pass began (the lines of the earlier run, which the
\* split does not touch) is held by a file of the output tree.
C23_EarlierLinesKept ==
    (argv # None /\ pc = "exit") =>
       \A g \in C15Compressed(before.out) :
          \A k \in 1..Len(C23LinesOf(before.out, g)) :
             \E h \in DOMAIN out :
                \E j \in 1..Len(C23LinesOf(out, h)) :
                   C23LinesOf(out, h)[j] = C23LinesOf(before.out, g)[k]

(***************************************************************************)
(* C24                                                                     *)
(***************************************************************************)
\* the call at hand returned an error after lines were handed to writeln!
C24FailedMidFile ==
    /\ Returned /\ res[proco.path].outcome = "error"
    /\ accepted # << >>

\* the first file of the prefix failed and kept its lines, and the call at
\* hand has split the second, which holds the same lines, without any
\* I/O error: the same file run again
C24RunAgain ==
    /\ Returned /\ proco.path = RotatedTwo
    /\ res[RotatedTwo].outcome = "split" /\ errs = {}
    /\ RotatedOne \in DOMAIN orig /\ orig[RotatedOne] = orig[RotatedTwo]
    /\ res[RotatedOne].outcome = "error"

\* C24: when a call fails after k lines were handed to writeln!, the source
\* is as it was and no output file has lost anything it held; unless the
\* flush of the dropped writer failed too, each output file holds what it
\* held followed by those of the k lines that were written for it.  When
\* the same lines are then split without error, each output file holds what
\* the failed call left, which are the first of the lines of the second
\* call for that file, followed by all the lines of the second call: the
\* lines of the failed call are there twice.
C24_NoRollback ==
    /\ C24FailedMidFile =>
          /\ proco.path \in DOMAIN src
          /\ src[proco.path] = orig[proco.path]
          /\ \A f \in DOMAIN out :
                /\ Len(HeldBefore(f)) <= Len(out[f])
                /\ HeldBefore(f) = SubSeq(out[f], 1, Len(HeldBefore(f)))
                /\ "flush" \notin errs => out[f] = HeldBefore(f) \o LinesTaken(f)
    /\ C24RunAgain =>
          \A f \in DOMAIN out :
             /\ out[f] = HeldBefore(f) \o LinesTaken(f)
             /\ Len(HeldBefore(f)) <= Len(LinesTaken(f))
             /\ HeldBefore(f) = SubSeq(LinesTaken(f), 1, Len(HeldBefore(f)))

\* the open of the file of the second date failed when one line was
\* written; run again, the lines were split: the first line is there twice
C24_Witness ==
    /\ C24RunAgain
    /\ orig[RotatedOne] = <<IdxIsoA, IdxIsoB>>
    /\ out = (new_fname(proco.outroot, C3DateA) :> <<IdxIsoA, IdxIsoA>>)
                @@ (new_fname(proco.outroot, C3DateB) :> <<IdxIsoB>>)

(***************************************************************************)
(* C25                                                                     *)
(***************************************************************************)
RECURSIVE C25LinesFor(_, _, _, _, _)
RECURSIVE C25Under(_, _, _, _, _)
\* the lines among c[n..] that belong to the date d: those whose date is d
\* and those without a date that follow such a line; dates gives the date of
\* each line, now that of the most recent line with a date before c[n]
C25LinesFor(dates, c, n, now, d) ==
    IF n > Len(c) THEN << >>
    ELSE C25Under(dates, c, n, IF dates[n] = None THEN now ELSE dates[n], d)

C25Under(dates, c, n, now, d) ==
    (IF now = Some(d) THEN <<c[n]>> ELSE << >>)
       \o C25LinesFor(dates, c, n + 1, now, d)

\* the output tree holds, for each date of dates1 and dates2, the file of
\* root and that date, with the lines c1 has for the date and then those c2
\* has, and no other file
C25Merged(dates1, c1, dates2, c2, root) ==
    /\ DOMAIN out = {new_fname(root, Unwrap(dates1[i])) :
                        i \in {k \in 1..Len(c1) : dates1[k] # None}}
                    \cup {new_fname(root, Unwrap(dates2[i])) :
                        i \in {k \in 1..Len(c2) : dates2[k] # None}}
    /\ \A i \in 1..Len(c1) :
          dates1[i] # None =>
             out[new_fname(root, Unwrap(dates1[i]))] =
                C25LinesFor(dates1, c1, 1, None, Unwrap(dates1[i]))
                   \o C25LinesFor(dates2, c2, 1, None, Unwrap(dates1[i]))
    /\ \A i \in 1..Len(c2) :
          dates2[i] # None =>
             out[new_fname(root, Unwrap(dates2[i]))] =
                C25LinesFor(dates1, c1, 1, None, Unwrap(dates2[i]))
                   \o C25LinesFor(dates2, c2, 1, None, Unwrap(dates2[i]))

\* both rotated files of the batch were split into an output folder that
\* was empty, and no I/O operation failed
C25BothSplit ==
    /\ argv = None /\ pc = "done" /\ faults = 0
    /\ RotatedOne \in DOMAIN orig /\ RotatedTwo \in DOMAIN orig
    /\ res[RotatedOne].outcome = "split"
    /\ res[RotatedTwo].outcome = "split"

\* C25: a.log.1 and a.log.2 have the same output prefix, and when both are
\* split in one batch without I/O failure, the file of each date holds the
\* lines that the file split first has for that date followed by those of
\* the file split second, each file's lines in their order, and there is
\* no other output file: every line of both is there once.
C25_SamePrefixMerged ==
    C25BothSplit =>
       /\ base_output_path(RotatedOne) = base_output_path(RotatedTwo)
       /\ C25Merged(C3Dates(orig[RotatedOne], Unwrap(res[RotatedOne].logtype), FirstYear),
                    orig[RotatedOne],
                    C3Dates(orig[RotatedTwo], Unwrap(res[RotatedTwo].logtype), FirstYear),
                    orig[RotatedTwo],
                    base_output_path(RotatedOne))

\* the first file had a line of one date and a line without a date, the
\* second a line of the same date and a line of another
C25_Witness ==
    /\ C25BothSplit
    /\ orig[RotatedOne] = <<IdxIsoA, IdxCont>>
    /\ orig[RotatedTwo] = <<IdxIsoA, IdxIsoB>>
    /\ out[new_fname(base_output_path(RotatedOne), C3DateA)] = <<IdxIsoA, IdxCont, IdxIsoA>>

====
